---- MODULE Spec2Model ----
(***************************************************************************)
(* A model of github.com/ic-it/csvadapter: the tag-driven schema builder   *)
(* (NewCSVAdapter), the lazy reader (FromCSV) and the writer (ToCSV).      *)
(*                                                                         *)
(* Text (a Go string) is a sequence of atoms.  An atom stands for a fixed  *)
(* run of characters ("alias", "omitempty", "Name", "3", ".", ...); two    *)
(* texts are equal exactly when their atom sequences are equal.            *)
(***************************************************************************)
EXTENDS Integers, Sequences, FiniteSets, TLC

VARIABLES
    structType,     \* the record type T: [kind, fields: Seq([name, tag, kind])]
    optArgs,        \* the options passed to NewCSVAdapter, in order
    phase,          \* position of the calling program
    rphase,         \* position of a FromCSV call that runs beside a ToCSV call
    wphase,         \* position of that ToCSV call
    csvAdapter,     \* what NewCSVAdapter returned: [isNil, fields, options]
    newErr,         \* the error NewCSVAdapter returned
    reader,         \* FromCSV's csvReader: [lines, pos, fieldsPerRecord, src]
    columnsOrder,   \* FromCSV's map from header cell to column index
    fromErr,        \* the error FromCSV returned
    line,           \* the line counter of the returned sequence
    yielded,        \* the pairs [rec, err] handed to the consumer, in order
    answers,        \* what yield returned for each pair: TRUE to go on
    data,           \* the records of the sequence given to ToCSV
    pulled,         \* how many of them ToCSV has taken
    wbuf,           \* lines written to csvWriter and not yet flushed
    sink,           \* lines the io.Writer has received
    sinkAccepts,    \* whether the io.Writer accepts what it is given
    writerErr,      \* the error the buffered writer keeps from a failed write
    toErr           \* the error ToCSV returned

schemaVars == <<structType, optArgs, csvAdapter, newErr>>

sharedVars == <<rphase, wphase>>

readVars == <<reader, columnsOrder, fromErr, line, yielded, answers>>

writeVars == <<data, pulled, wbuf, sink, sinkAccepts, writerErr, toErr>>

vars == <<structType, optArgs, phase, rphase, wphase, csvAdapter, newErr, reader, columnsOrder,
          fromErr, line, yielded, answers, data, pulled, wbuf, sink,
          sinkAccepts, writerErr, toErr>>

----------------------------------------------------------------------------
(* Bounds of the model *)

\* Largest number of comma-separated segments in one field's tag.
MaxParts == 2

\* Largest number of lines of a CSV text given to FromCSV, header included.
MaxLines == 3

\* Largest number of records of a sequence given to ToCSV.
MaxRecords == 2

\* Rows the buffer of the csv writer holds before it hands them to the sink.
BufferRows == 2

----------------------------------------------------------------------------
(* Errors.  errors.Join(a, b, ...) is modelled by the set of sentinels it  *)
(* wraps (what errors.Is sees) and the detail value joined to them.        *)

ErrUnsupportedTag == "ErrUnsupportedTag"
ErrInvalidTag == "ErrInvalidTag"
ErrorNotStruct == "ErrorNotStruct"
ErrAliasNotFound == "ErrAliasNotFound"

NilErr == [kinds |-> {}, at |-> <<>>]

Join2(sentinel, detail) == [kinds |-> {sentinel}, at |-> detail]

\* errors.Is(err, sentinel)
Is(err, sentinel) == sentinel \in err.kinds

----------------------------------------------------------------------------
(* Tag grammar constants *)

TAG_OMITEMPTY == <<"omitempty">>
TAG_ALIAS == <<"alias">>
TAG_SKIP == <<"-">>

----------------------------------------------------------------------------
(* strings.Split(s, sep) for a one-atom separator: always at least one     *)
(* element; an empty s gives one empty element.                            *)

\* strings.Index(s, sep), 1-based, from position i on; 0 when sep is absent.
RECURSIVE IndexFrom(_, _, _)
IndexFrom(s, sep, i) ==
    IF i > Len(s) THEN 0
    ELSE IF s[i] = sep THEN i
    ELSE IndexFrom(s, sep, i + 1)

IndexOf(s, sep) == IndexFrom(s, sep, 1)

RECURSIVE Split(_, _)
Split(s, sep) ==
    LET i == IndexOf(s, sep)
    IN  IF i = 0 THEN <<s>>
        ELSE <<SubSeq(s, 1, i - 1)>> \o Split(SubSeq(s, i + 1, Len(s)), sep)

----------------------------------------------------------------------------
(* NewCSVAdapter: the per-field tag loop.                                  *)
(* st is the loop state of one field:                                      *)
(*   [alias, omitEmpty, isAliasSet, out], out is "next" while the loop     *)
(*   runs, "skip" after `continue iterOverFields`, "err" after a return.   *)

FieldStart(fld, opts) ==
    [alias |-> IF ~opts.noImplicitAlias THEN fld.name ELSE <<>>,
     omitEmpty |-> FALSE,
     isAliasSet |-> FALSE,
     out |-> "next",
     err |-> NilErr]

\* The mutant of TagPart that ignores the skip marker.
TagPartNoSkip(st, part) ==
    LET kv == Split(part, "=")
        key == kv[1]
        value == IF Len(kv) = 2 THEN kv[2] ELSE <<>>
    IN  IF part = <<>> \/ part = TAG_SKIP THEN st
        ELSE IF Len(kv) > 2
        THEN [st EXCEPT !.out = "err", !.err = Join2(ErrInvalidTag, <<part>>)]
        ELSE IF key = TAG_ALIAS THEN [st EXCEPT !.alias = value]
        ELSE IF key = TAG_OMITEMPTY THEN [st EXCEPT !.omitEmpty = TRUE]
        ELSE IF ~st.isAliasSet
        THEN [st EXCEPT !.alias = key, !.isAliasSet = TRUE]
        ELSE [st EXCEPT !.out = "err", !.err = Join2(ErrUnsupportedTag, <<part>>)]

\* The mutant of TagPart that accepts a segment with more than one "=".
TagPartLaxKV(st, part) ==
    LET kv == Split(part, "=")
        key == kv[1]
        value == IF Len(kv) >= 2 THEN kv[2] ELSE <<>>
    IN  IF part = <<>> THEN st
        ELSE IF part = TAG_SKIP THEN [st EXCEPT !.out = "skip"]
        ELSE IF key = TAG_ALIAS THEN [st EXCEPT !.alias = value]
        ELSE IF key = TAG_OMITEMPTY THEN [st EXCEPT !.omitEmpty = TRUE]
        ELSE IF ~st.isAliasSet
        THEN [st EXCEPT !.alias = key, !.isAliasSet = TRUE]
        ELSE [st EXCEPT !.out = "err", !.err = Join2(ErrUnsupportedTag, <<part>>)]

\* One iteration of `for _, part := range tagParts`.
TagPart(st, part) ==
    LET kv == Split(part, "=")
        key == kv[1]
        value == IF Len(kv) = 2 THEN kv[2] ELSE <<>>
    IN  IF part = <<>> THEN st
        ELSE IF part = TAG_SKIP THEN [st EXCEPT !.out = "skip"]
        ELSE IF Len(kv) > 2
        THEN [st EXCEPT !.out = "err", !.err = Join2(ErrInvalidTag, <<part>>)]
        ELSE IF key = TAG_ALIAS THEN [st EXCEPT !.alias = value]
        ELSE IF key = TAG_OMITEMPTY THEN [st EXCEPT !.omitEmpty = TRUE]
        ELSE IF ~st.isAliasSet
        THEN [st EXCEPT !.alias = key, !.isAliasSet = TRUE]
        ELSE [st EXCEPT !.out = "err", !.err = Join2(ErrUnsupportedTag, <<part>>)]

\* The loop over tagParts, from part i on; it stops at a skip or an error.
RECURSIVE TagLoop(_, _, _)
TagLoop(st, tagParts, i) ==
    IF i > Len(tagParts) \/ st.out # "next" THEN st
    ELSE TagLoop(TagPart(st, tagParts[i]), tagParts, i + 1)

\* The mutant of FieldDescriptor that seeds no implicit alias.
FieldDescriptorNoSeed(fld, opts) ==
    LET st == TagLoop([FieldStart(fld, opts) EXCEPT !.alias = <<>>],
                      Split(fld.tag, ","), 1)
    IN  IF st.out = "next" /\ st.alias = <<>>
        THEN [st EXCEPT !.out = "err", !.err = Join2(ErrAliasNotFound, <<fld.name>>)]
        ELSE st

\* The body of the loop over the fields for one field, the alias check
\* after the tag loop included.
FieldDescriptor(fld, opts) ==
    LET st == TagLoop(FieldStart(fld, opts), Split(fld.tag, ","), 1)
    IN  IF st.out = "next" /\ st.alias = <<>>
        THEN [st EXCEPT !.out = "err", !.err = Join2(ErrAliasNotFound, <<fld.name>>)]
        ELSE st

RECURSIVE IterOverFields(_, _, _, _)

\* The mutant of IterOverFields that leaves the loop over the fields at a
\* skipped field.
IterOverFieldsSkipBreaks(t, opts, i, fields) ==
    IF i > Len(t.fields) THEN [fields |-> fields, err |-> NilErr]
    ELSE LET st == FieldDescriptor(t.fields[i], opts)
         IN  IF st.out = "err" THEN [fields |-> <<>>, err |-> st.err]
             ELSE IF st.out = "skip" THEN [fields |-> fields, err |-> NilErr]
             ELSE IterOverFields(t, opts, i + 1,
                     Append(fields, [name |-> t.fields[i].name,
                                     alias |-> st.alias,
                                     omitEmpty |-> st.omitEmpty]))

\* The loop over the fields of the type, from field i on, fields being the
\* descriptors appended so far.
IterOverFields(t, opts, i, fields) ==
    IF i > Len(t.fields) THEN [fields |-> fields, err |-> NilErr]
    ELSE LET st == FieldDescriptor(t.fields[i], opts)
         IN  IF st.out = "err" THEN [fields |-> <<>>, err |-> st.err]
             ELSE IF st.out = "skip" THEN IterOverFields(t, opts, i + 1, fields)
             ELSE IterOverFields(t, opts, i + 1,
                     Append(fields, [name |-> t.fields[i].name,
                                     alias |-> st.alias,
                                     omitEmpty |-> st.omitEmpty]))

----------------------------------------------------------------------------
(* Options *)

newCSVAdapterOptions == [writeHeader |-> TRUE, noImplicitAlias |-> FALSE]

\* The option functions WriteHeader(b) and NoImplicitAlias(b), as values.
WriteHeader(b) == [opt |-> "WriteHeader", val |-> b]
NoImplicitAlias(b) == [opt |-> "NoImplicitAlias", val |-> b]

\* option(csvAdapter.options)
ApplyOption(o, opts) ==
    IF o.opt = "WriteHeader" THEN [opts EXCEPT !.writeHeader = o.val]
    ELSE [opts EXCEPT !.noImplicitAlias = o.val]

\* for _, option := range options { option(csvAdapter.options) }
RECURSIVE ApplyOptions(_, _, _)
ApplyOptions(args, i, opts) ==
    IF i > Len(args) THEN opts
    ELSE ApplyOptions(args, i + 1, ApplyOption(args[i], opts))

NilAdapter == [isNil |-> TRUE, fields |-> <<>>, options |-> newCSVAdapterOptions]

\* NewCSVAdapter[T](options...): [adapter, err]
BuildAdapter(t, args) ==
    LET opts == ApplyOptions(args, 1, newCSVAdapterOptions)
        r == IterOverFields(t, opts, 1, <<>>)
    IN  IF t.kind # "struct"
        THEN [adapter |-> NilAdapter, err |-> Join2(ErrorNotStruct, <<<<t.kind>>>>)]
        ELSE IF r.err # NilErr THEN [adapter |-> NilAdapter, err |-> r.err]
        ELSE [adapter |-> [isNil |-> FALSE, fields |-> r.fields, options |-> opts],
              err |-> NilErr]

----------------------------------------------------------------------------
(* Values.  The kind of a field is a sequence: <<"string">>, <<"int">>,    *)
(* <<"float64">>, <<"bool">>, or <<"ptr">> \o the kind pointed to.  A      *)
(* string is a text, an int an integer, a bool a boolean; a float64 is     *)
(* counted in units of 10^-FloatFrac; a pointer is <<>> (nil) or <<v>>.    *)

\* Decimal places the model's float64 values resolve.
FloatFrac == 7

\* The precision of fmt's %f verb.
FmtPrecision == 6

IsPtr(kind) == kind[1] = "ptr"

Elem(kind) == Tail(kind)

\* The sized integer kinds and their widths in bits.
SignedKinds == { <<"int8">>, <<"int16">>, <<"int32">>, <<"int64">> }

UnsignedKinds == { <<"uint8">>, <<"uint16">>, <<"uint32">>, <<"uint64">> }

BitSize(kind) ==
    CASE kind \in { <<"int8">>, <<"uint8">> } -> 8
      [] kind \in { <<"int16">>, <<"uint16">> } -> 16
      [] kind \in { <<"int32">>, <<"uint32">> } -> 32
      [] kind \in { <<"int64">>, <<"uint64">> } -> 64

RECURSIVE Zero(_)
Zero(kind) ==
    CASE kind = <<"string">> -> <<>>
      [] kind = <<"int">> -> 0
      [] kind \in SignedKinds \cup UnsignedKinds -> 0
      [] kind = <<"float64">> -> 0
      [] kind = <<"bool">> -> FALSE
      [] OTHER -> <<>>

\* var TEmpty T, and reflect.New(c.structType).Elem()
ZeroRecord(t) == [i \in 1..Len(t.fields) |-> Zero(t.fields[i].kind)]

\* reflect's FieldByName: the position of the field, 0 when there is none.
RECURSIVE FieldIndexFrom(_, _, _)
FieldIndexFrom(t, name, i) ==
    IF i > Len(t.fields) THEN 0
    ELSE IF t.fields[i].name = name THEN i
    ELSE FieldIndexFrom(t, name, i + 1)

FieldByName(t, name) == FieldIndexFrom(t, name, 1)

Digits == <<"0", "1", "2", "3", "4", "5", "6", "7", "8", "9">>

IsDigit(a) == \E d \in 1..10 : Digits[d] = a

DigitVal(a) == (CHOOSE d \in 1..10 : Digits[d] = a) - 1

\* The decimal digits of a natural number.
RECURSIVE NatText(_)
NatText(n) ==
    IF n < 10 THEN <<Digits[n + 1]>>
    ELSE NatText(n \div 10) \o <<Digits[(n % 10) + 1]>>

\* fmt.Sprintf("%d", n)
IntText(n) == IF n < 0 THEN <<"-">> \o NatText(-n) ELSE NatText(n)

\* The value of a run of digits.
RECURSIVE NatVal(_, _)
NatVal(text, acc) ==
    IF text = <<>> THEN acc
    ELSE NatVal(Tail(text), 10 * acc + DigitVal(Head(text)))

AllDigits(text) == \A k \in 1..Len(text) : IsDigit(text[k])

\* strconv.Atoi / strconv.ParseInt(value, 10, _): [ok, val].  The cells of
\* the model are too short to leave the range of the integer kinds.
ParseInt(text) ==
    LET signed == text # <<>> /\ text[1] \in {"-", "+"}
        body == IF signed THEN Tail(text) ELSE text
    IN  IF body = <<>> \/ ~AllDigits(body) THEN [ok |-> FALSE, val |-> 0]
        ELSE [ok |-> TRUE,
              val |-> IF signed /\ text[1] = "-" THEN -NatVal(body, 0)
                      ELSE NatVal(body, 0)]

\* The value of a run of digits with a minus sign before it.
RECURSIVE NegVal(_, _)
NegVal(text, acc) ==
    IF text = <<>> THEN acc
    ELSE NegVal(Tail(text), 10 * acc - DigitVal(Head(text)))

\* The decimal digits of 2^n, for the n that strconv compares with.  The
\* integers of the checker end at 2^31 - 1, so the cutoffs are kept and
\* compared as digits.
Pow2Text(n) ==
    CASE n = 7 -> <<"1", "2", "8">>
      [] n = 8 -> <<"2", "5", "6">>
      [] n = 15 -> <<"3", "2", "7", "6", "8">>
      [] n = 16 -> <<"6", "5", "5", "3", "6">>
      [] n = 31 -> <<"2", "1", "4", "7", "4", "8", "3", "6", "4", "8">>
      [] n = 32 -> <<"4", "2", "9", "4", "9", "6", "7", "2", "9", "6">>
      [] n = 63 -> <<"9", "2", "2", "3", "3", "7", "2", "0", "3", "6", "8", "5", "4", "7", "7", "5", "8", "0", "8">>
      [] n = 64 -> <<"1", "8", "4", "4", "6", "7", "4", "4", "0", "7", "3", "7", "0", "9", "5", "5", "1", "6", "1", "6">>

\* A run of digits without its leading zeros.
RECURSIVE StripZeros(_)
StripZeros(text) ==
    IF Len(text) > 1 /\ Head(text) = "0" THEN StripZeros(Tail(text)) ELSE text

\* a < b for runs of digits of the same length.
RECURSIVE DigitsLess(_, _)
DigitsLess(a, b) ==
    IF a = <<>> THEN FALSE
    ELSE IF Head(a) # Head(b) THEN DigitVal(Head(a)) < DigitVal(Head(b))
    ELSE DigitsLess(Tail(a), Tail(b))

\* a < b for runs of digits without leading zeros.
Less(a, b) == Len(a) < Len(b) \/ (Len(a) = Len(b) /\ DigitsLess(a, b))

\* strconv.ParseUint(value, 10, bitSize): [ok, val].  No sign is allowed;
\* a value of 2^bitSize or more is out of range.
ParseUint(text, bitSize) ==
    IF text = <<>> \/ ~AllDigits(text) THEN [ok |-> FALSE, val |-> 0]
    ELSE IF ~Less(StripZeros(text), Pow2Text(bitSize)) THEN [ok |-> FALSE, val |-> 0]
    ELSE [ok |-> TRUE, val |-> NatVal(text, 0)]

\* The mutant of ParseIntBits that parses every width as 64 bits.
ParseIntAs64(text, bitSize) ==
    LET neg == text # <<>> /\ text[1] = "-"
        body == IF text # <<>> /\ text[1] \in {"-", "+"} THEN Tail(text) ELSE text
        un == StripZeros(body)
        cutoff == Pow2Text(63)
    IN  IF body = <<>> \/ ~AllDigits(body) THEN [ok |-> FALSE, val |-> 0]
        ELSE IF ~neg /\ ~Less(un, cutoff) THEN [ok |-> FALSE, val |-> 0]
        ELSE IF neg /\ Less(cutoff, un) THEN [ok |-> FALSE, val |-> 0]
        ELSE [ok |-> TRUE, val |-> IF neg THEN NegVal(body, 0) ELSE NatVal(body, 0)]

\* strconv.ParseInt(value, 10, bitSize): [ok, val].  The magnitude is
\* parsed unsigned and compared with cutoff = 2^(bitSize-1): at or above it
\* is out of range without a minus sign, above it with one.
ParseIntBits(text, bitSize) ==
    LET neg == text # <<>> /\ text[1] = "-"
        body == IF text # <<>> /\ text[1] \in {"-", "+"} THEN Tail(text) ELSE text
        un == StripZeros(body)
        cutoff == Pow2Text(bitSize - 1)
    IN  IF body = <<>> \/ ~AllDigits(body) THEN [ok |-> FALSE, val |-> 0]
        ELSE IF ~neg /\ ~Less(un, cutoff) THEN [ok |-> FALSE, val |-> 0]
        ELSE IF neg /\ Less(cutoff, un) THEN [ok |-> FALSE, val |-> 0]
        ELSE [ok |-> TRUE, val |-> IF neg THEN NegVal(body, 0) ELSE NatVal(body, 0)]

\* field.SetInt(i): the field keeps the low bits of i.  For the widths of
\* 32 bits and more every integer of the checker fits.
SetInt(kind, i) ==
    IF BitSize(kind) > 16 THEN i
    ELSE LET half == 2 ^ (BitSize(kind) - 1)
         IN  ((i + half) % (2 * half)) - half

\* field.SetUint(i)
SetUint(kind, i) ==
    IF BitSize(kind) > 16 THEN i ELSE i % (2 ^ BitSize(kind))

\* The digits of n, zero-padded on the left to width w.
RECURSIVE Padded(_, _)
Padded(n, w) ==
    IF w = 0 THEN <<>>
    ELSE Padded(n \div 10, w - 1) \o <<Digits[(n % 10) + 1]>>

\* fmt.Sprintf("%f", f): the value rounded to FmtPrecision decimal places,
\* half to even.
FloatText(u) ==
    LET a == IF u < 0 THEN -u ELSE u
        scale == 10 ^ (FloatFrac - FmtPrecision)
        q == a \div scale
        r == a % scale
        m == IF 2 * r > scale \/ (2 * r = scale /\ q % 2 = 1) THEN q + 1 ELSE q
    IN  (IF u < 0 THEN <<"-">> ELSE <<>>)
        \o NatText(m \div (10 ^ FmtPrecision)) \o <<".">>
        \o Padded(m % (10 ^ FmtPrecision), FmtPrecision)

\* strconv.ParseFloat(value, 64) on decimal text: [ok, val].  Digits past
\* the resolution of the model are dropped.
ParseFloat(text) ==
    LET signed == text # <<>> /\ text[1] \in {"-", "+"}
        body == IF signed THEN Tail(text) ELSE text
        dot == IndexOf(body, ".")
        ip == IF dot = 0 THEN body ELSE SubSeq(body, 1, dot - 1)
        fp == IF dot = 0 THEN <<>> ELSE SubSeq(body, dot + 1, Len(body))
        fpk == IF Len(fp) > FloatFrac THEN SubSeq(fp, 1, FloatFrac) ELSE fp
        a == NatVal(ip, 0) * (10 ^ FloatFrac)
             + NatVal(fpk, 0) * (10 ^ (FloatFrac - Len(fpk)))
    IN  IF (ip = <<>> /\ fp = <<>>) \/ ~AllDigits(ip) \/ ~AllDigits(fp)
        THEN [ok |-> FALSE, val |-> 0]
        ELSE [ok |-> TRUE, val |-> IF signed /\ text[1] = "-" THEN -a ELSE a]

\* fmt.Sprintf("%t", b)
BoolText(b) == IF b THEN <<"true">> ELSE <<"false">>

\* strconv.ParseBool: [ok, val]
ParseBool(text) ==
    IF text \in {<<"1">>, <<"t">>, <<"T">>, <<"TRUE">>, <<"true">>, <<"True">>}
    THEN [ok |-> TRUE, val |-> TRUE]
    ELSE IF text \in {<<"0">>, <<"f">>, <<"F">>, <<"FALSE">>, <<"false">>, <<"False">>}
    THEN [ok |-> TRUE, val |-> FALSE]
    ELSE [ok |-> FALSE, val |-> FALSE]

ErrReadingCSV == "ErrReadingCSV"
ErrReadingCSVLines == "ErrReadingCSVLines"
ErrProcessingCSVLines == "ErrProcessingCSVLines"
ErrFieldNotFound == "ErrFieldNotFound"
ErrUnprocessableType == "ErrUnprocessableType"
ErrParsingType == "ErrParsingType"
ErrEmptyValue == "ErrEmptyValue"

\* errors.Join(a, b): both errors' sentinels; the detail of the one that
\* carries a detail.
JoinErr(a, b) ==
    [kinds |-> a.kinds \cup b.kinds, at |-> IF a.at # <<>> THEN a.at ELSE b.at]

Sentinel(s) == [kinds |-> {s}, at |-> <<>>]

\* A field of a kind that is none of the above is a struct of a named type,
\* kept as the text it holds.  The interfaces the pointer to the type
\* implements:
TextUnmarshaler == "encoding.TextUnmarshaler"
TextMarshaler == "encoding.TextMarshaler"
Stringer == "fmt.Stringer"

\* Email is PersonWithManyTypesEmail of the tests; Tagged, Label and Opaque
\* are types with a MarshalText and a String method, with a String method
\* only, and with no method.
Implements(typeName) ==
    CASE typeName = "Email" -> {TextUnmarshaler, TextMarshaler}
      [] typeName = "Tagged" -> {TextMarshaler, Stringer}
      [] typeName = "Label" -> {Stringer}
      [] OTHER -> {}

IsCustom(kind) == kind # <<>> /\ kind[1] = "struct"

\* p.Email = string(text)
UnmarshalText(text) == text

\* []byte(p.Email)
MarshalText(v) == v

\* The rendering of String(): the text in brackets.
String(v) == <<"(">> \o v \o <<")">>

\* unmarshalField(field, value): [err, val], val the field after the call,
\* cur the field before it, canAddr its field.CanAddr().
RECURSIVE unmarshalField(_, _, _, _)
unmarshalField(kind, value, cur, canAddr) ==
    CASE kind = <<"string">> -> [err |-> NilErr, val |-> value]
      [] kind = <<"int">> ->
            LET r == ParseInt(value)
            IN  IF r.ok THEN [err |-> NilErr, val |-> r.val]
                ELSE [err |-> Sentinel(ErrParsingType), val |-> cur]
      [] kind \in SignedKinds ->
            LET r == ParseIntBits(value, BitSize(kind))
            IN  IF r.ok THEN [err |-> NilErr, val |-> SetInt(kind, r.val)]
                ELSE [err |-> Sentinel(ErrParsingType), val |-> cur]
      [] kind \in UnsignedKinds ->
            LET r == ParseUint(value, BitSize(kind))
            IN  IF r.ok THEN [err |-> NilErr, val |-> SetUint(kind, r.val)]
                ELSE [err |-> Sentinel(ErrParsingType), val |-> cur]
      [] kind = <<"bool">> ->
            LET r == ParseBool(value)
            IN  IF r.ok THEN [err |-> NilErr, val |-> r.val]
                ELSE [err |-> Sentinel(ErrParsingType), val |-> cur]
      [] kind = <<"float64">> ->
            LET r == ParseFloat(value)
            IN  IF r.ok THEN [err |-> NilErr, val |-> r.val]
                ELSE [err |-> Sentinel(ErrParsingType), val |-> cur]
      [] IsPtr(kind) ->
            LET pointee == IF cur = <<>> THEN Zero(Elem(kind)) ELSE cur[1]
                r == unmarshalField(Elem(kind), value, pointee, TRUE)
            IN  [err |-> r.err, val |-> <<r.val>>]
      [] OTHER ->
            IF canAddr /\ IsCustom(kind) /\ TextUnmarshaler \in Implements(kind[2])
            THEN [err |-> NilErr, val |-> UnmarshalText(value)]
            ELSE [err |-> Sentinel(ErrUnprocessableType), val |-> cur]

\* fld.IsExported(): the name begins with an upper-case letter.  Of the
\* field names of the record types here only "secret" does not.
IsExported(name) == name # <<"secret">>

\* The panic of reflect at a Set, or at Interface(), on a value obtained
\* through a field that is not exported.
PanicUnexported == "reflect: value obtained using unexported field"

\* unmarshalField(field, value) panics, field being s.FieldByName(name) for
\* a name that is not exported: at the Set* that follows a successful
\* parse, at field.Set(reflect.New(...)) for a nil pointer, at
\* field.Addr().Interface() for the other kinds.
RECURSIVE SetPanics(_, _, _)
SetPanics(kind, value, cur) ==
    CASE kind = <<"string">> -> TRUE
      [] kind = <<"int">> -> ParseInt(value).ok
      [] kind \in SignedKinds -> ParseIntBits(value, BitSize(kind)).ok
      [] kind \in UnsignedKinds -> ParseUint(value, BitSize(kind)).ok
      [] kind = <<"bool">> -> ParseBool(value).ok
      [] kind = <<"float64">> -> ParseFloat(value).ok
      [] IsPtr(kind) -> cur = <<>> \/ SetPanics(Elem(kind), value, cur[1])
      [] OTHER -> TRUE

\* marshalField(field): [err, str], canAddr the field's field.CanAddr().
RECURSIVE marshalField(_, _, _)
marshalField(kind, v, canAddr) ==
    CASE kind = <<"string">> -> [err |-> NilErr, str |-> v]
      [] kind = <<"int">> -> [err |-> NilErr, str |-> IntText(v)]
      [] kind \in SignedKinds \cup UnsignedKinds -> [err |-> NilErr, str |-> IntText(v)]
      [] kind = <<"bool">> -> [err |-> NilErr, str |-> BoolText(v)]
      [] kind = <<"float64">> -> [err |-> NilErr, str |-> FloatText(v)]
      [] IsPtr(kind) ->
            IF v = <<>> THEN [err |-> NilErr, str |-> <<>>]
            ELSE marshalField(Elem(kind), v[1], TRUE)
      [] OTHER ->
            IF canAddr /\ IsCustom(kind) /\ TextMarshaler \in Implements(kind[2])
            THEN [err |-> NilErr, str |-> MarshalText(v)]
            ELSE IF canAddr /\ IsCustom(kind) /\ Stringer \in Implements(kind[2])
            THEN [err |-> NilErr, str |-> String(v)]
            ELSE [err |-> Sentinel(ErrUnprocessableType), str |-> <<>>]

----------------------------------------------------------------------------
(* encoding/csv.  A CSV text is a sequence of lines, a line the sequence   *)
(* of its cells.  A line of no cell or of one empty cell is a blank line;  *)
(* a line with a stray quote in a cell does not parse.  The io.Reader      *)
(* under the csv reader hands over the lines of the text and then reports  *)
(* io.EOF; a reader of src "failing" reports an error of its own instead,  *)
(* at every call made after the lines.                                     *)

EOF == "io.EOF"
ParseError == "csv.ParseError"
ErrFieldCount == "csv.ErrFieldCount"

\* The error of an io.Reader that fails: any error that is not io.EOF.
ErrSource == "source error"

IsBlankLine(l) == l = <<>> \/ l = << <<>> >>

IsBadLine(l) == \E i \in 1..Len(l) : \E k \in 1..Len(l[i]) : l[i][k] = "\""

\* csv.NewReader(reader), FieldsPerRecord 0: the first record sets it.
NewReader(lines, src) ==
    [lines |-> lines, pos |-> 1, fieldsPerRecord |-> 0, src |-> src]

RECURSIVE SkipBlank(_, _)
SkipBlank(lines, pos) ==
    IF pos <= Len(lines) /\ IsBlankLine(lines[pos]) THEN SkipBlank(lines, pos + 1)
    ELSE pos

\* csvReader.Read(): [record, err, reader], reader the reader after the call.
Read(r) ==
    LET p == SkipBlank(r.lines, r.pos)
    IN  IF p > Len(r.lines)
        THEN [record |-> <<>>,
              err |-> IF r.src = "failing" THEN Sentinel(ErrSource) ELSE Sentinel(EOF),
              reader |-> [r EXCEPT !.pos = p]]
        ELSE LET l == r.lines[p]
                 record == IF IsBadLine(l) THEN <<>> ELSE l
                 err == IF IsBadLine(l) THEN Sentinel(ParseError)
                        ELSE IF r.fieldsPerRecord > 0 /\ Len(record) # r.fieldsPerRecord
                        THEN [kinds |-> {ParseError, ErrFieldCount}, at |-> <<>>]
                        ELSE NilErr
             IN  [record |-> record, err |-> err,
                  reader |-> [r EXCEPT !.pos = p + 1,
                                       !.fieldsPerRecord =
                                           IF @ = 0 THEN Len(record) ELSE @]]

\* csvWriter.Write(record): the line the record is written as.
WriteLine(record) == record

\* The error of an io.Writer that does not accept a write.
ErrSink == "sink error"

\* csv.NewWriter(writer): a buffered writer over the sink.
NewWriter(accepts) ==
    [buf |-> <<>>, sink |-> <<>>, accepts |-> accepts, err |-> NilErr]

\* The buffered writer hands what it holds to the sink; an error of the
\* sink stays with the writer, and a writer with an error does nothing.
Flush(w) ==
    IF w.err # NilErr THEN w
    ELSE IF w.buf = <<>> THEN w
    ELSE IF w.accepts THEN [w EXCEPT !.sink = @ \o w.buf, !.buf = <<>>]
    ELSE [w EXCEPT !.err = Sentinel(ErrSink)]

\* csvWriter.Write(record): [writer, err].  The row goes to the buffer,
\* which is handed to the sink first when it is full.
Write(w, record) ==
    LET f == IF Len(w.buf) >= BufferRows THEN Flush(w) ELSE w
    IN  IF f.err # NilErr THEN [writer |-> f, err |-> f.err]
        ELSE [writer |-> [f EXCEPT !.buf = Append(@, WriteLine(record))],
              err |-> NilErr]

----------------------------------------------------------------------------
(* FromCSV *)

EmptyMap == [h \in {} |-> 0]

RECURSIVE HeaderLoop(_, _, _)

\* The mutant of HeaderLoop that keeps the first column of an alias.
HeaderLoopKeepsFirst(header, i, m) ==
    IF i > Len(header) THEN m
    ELSE HeaderLoop(header, i + 1,
            [h \in DOMAIN m \cup {header[i]} |->
                IF h \in DOMAIN m THEN m[h] ELSE i - 1])

\* for i, h := range header { columnsOrder[h] = i }
HeaderLoop(header, i, m) ==
    IF i > Len(header) THEN m
    ELSE HeaderLoop(header, i + 1,
            [h \in DOMAIN m \cup {header[i]} |->
                IF h = header[i] THEN i - 1 ELSE m[h]])

\* The mutant of CheckFields that asks for the column of every field.
RECURSIVE CheckFieldsStrict(_, _, _)
CheckFieldsStrict(fields, order, i) ==
    IF i > Len(fields) THEN NilErr
    ELSE IF fields[i].alias \notin DOMAIN order
    THEN Join2(ErrFieldNotFound, <<fields[i].alias>>)
    ELSE CheckFieldsStrict(fields, order, i + 1)

\* The loop that checks that the fields are present in the header.
RECURSIVE CheckFields(_, _, _)
CheckFields(fields, order, i) ==
    IF i > Len(fields) THEN NilErr
    ELSE IF fields[i].alias \notin DOMAIN order /\ ~fields[i].omitEmpty
    THEN Join2(ErrFieldNotFound, <<fields[i].alias>>)
    ELSE CheckFields(fields, order, i + 1)

\* The mutant of FromCSVCall that goes on when the header cannot be read.
FromCSVCallNoHeaderCheck(adapter, lines, src) ==
    LET h == Read(NewReader(lines, src))
        order == HeaderLoop(h.record, 1, EmptyMap)
        err == CheckFields(adapter.fields, order, 1)
    IN  [seq |-> err = NilErr, err |-> err, reader |-> h.reader,
         columnsOrder |-> IF err = NilErr THEN order ELSE EmptyMap]

\* FromCSV up to its return: [seq, err, reader, columnsOrder], seq telling
\* whether a sequence is returned.
FromCSVCall(adapter, lines, src) ==
    LET h == Read(NewReader(lines, src))
        order == HeaderLoop(h.record, 1, EmptyMap)
        err == CheckFields(adapter.fields, order, 1)
    IN  IF h.err # NilErr
        THEN [seq |-> FALSE, err |-> JoinErr(Sentinel(ErrReadingCSVLines), h.err),
              reader |-> h.reader, columnsOrder |-> EmptyMap]
        ELSE [seq |-> err = NilErr, err |-> err, reader |-> h.reader,
              columnsOrder |-> IF err = NilErr THEN order ELSE EmptyMap]

\* errors.Join(ErrProcessingCSVLines, ReadingError{line, f.name, f.alias})
FieldErr(ln, f) == Join2(ErrProcessingCSVLines, <<ln, f.name, f.alias>>)

\* The loop over c.fields for one record, from field i on, s being the
\* value built so far: [rec, err], the pair that is yielded; when
\* unmarshalField panics no pair is yielded and err is PanicUnexported.
RECURSIVE DecodeFields(_, _, _, _, _, _)

\* The mutant of DecodeFields that leaves a field at zero for any empty cell.
DecodeFieldsLaxEmpty(t, fields, order, record, ln, st) ==
    LET i == st.i
        f == fields[i]
        isFound == f.alias \in DOMAIN order
        value == record[order[f.alias] + 1]
        fi == FieldByName(t, f.name)
        u == unmarshalField(t.fields[fi].kind, value, st.s[fi], TRUE)
        next == [st EXCEPT !.i = i + 1]
    IN  IF i > Len(fields) THEN [rec |-> st.s, err |-> NilErr]
        ELSE IF ~isFound \/ value = <<>>
        THEN DecodeFields(t, fields, order, record, ln, next)
        ELSE IF ~IsExported(f.name) /\ SetPanics(t.fields[fi].kind, value, st.s[fi])
        THEN [rec |-> ZeroRecord(t), err |-> Sentinel(PanicUnexported)]
        ELSE IF u.err # NilErr
        THEN [rec |-> ZeroRecord(t), err |-> JoinErr(FieldErr(ln, f), u.err)]
        ELSE DecodeFields(t, fields, order, record, ln,
                          [next EXCEPT !.s[fi] = u.val])

DecodeFields(t, fields, order, record, ln, st) ==
    LET i == st.i
        f == fields[i]
        isFound == f.alias \in DOMAIN order
        value == record[order[f.alias] + 1]
        fi == FieldByName(t, f.name)
        u == unmarshalField(t.fields[fi].kind, value, st.s[fi], TRUE)
        next == [st EXCEPT !.i = i + 1]
    IN  IF i > Len(fields) THEN [rec |-> st.s, err |-> NilErr]
        ELSE IF ~isFound /\ f.omitEmpty
        THEN DecodeFields(t, fields, order, record, ln, next)
        ELSE IF ~isFound
        THEN [rec |-> ZeroRecord(t),
              err |-> JoinErr(FieldErr(ln, f), Sentinel(ErrFieldNotFound))]
        ELSE IF value = <<>> /\ f.omitEmpty
        THEN DecodeFields(t, fields, order, record, ln, next)
        ELSE IF value = <<>>
        THEN [rec |-> ZeroRecord(t),
              err |-> JoinErr(FieldErr(ln, f), Sentinel(ErrEmptyValue))]
        ELSE IF ~IsExported(f.name) /\ SetPanics(t.fields[fi].kind, value, st.s[fi])
        THEN [rec |-> ZeroRecord(t), err |-> Sentinel(PanicUnexported)]
        ELSE IF u.err # NilErr
        THEN [rec |-> ZeroRecord(t), err |-> JoinErr(FieldErr(ln, f), u.err)]
        ELSE DecodeFields(t, fields, order, record, ln,
                          [next EXCEPT !.s[fi] = u.val])

\* One iteration of loopOverLines after a record was read without error.
DecodeRow(t, adapter, order, record, ln) ==
    DecodeFields(t, adapter.fields, order, record, ln,
                 [i |-> 1, s |-> ZeroRecord(t)])

----------------------------------------------------------------------------
(* ToCSV *)

\* header[i] = f.alias
HeaderOf(adapter) == [i \in 1..Len(adapter.fields) |-> adapter.fields[i].alias]

\* The loop over c.fields for one item, from field i on: [err, record].
RECURSIVE EncodeFields(_, _, _, _, _, _)
EncodeFields(t, fields, item, ln, i, record) ==
    LET f == fields[i]
        fi == FieldByName(t, f.name)
        kind == t.fields[fi].kind
        m == marshalField(kind, item[fi], FALSE)
    IN  IF i > Len(fields) THEN [err |-> NilErr, record |-> record]
        ELSE IF fi = 0
        THEN [err |-> JoinErr(FieldErr(ln, f), Sentinel(ErrFieldNotFound)),
              record |-> record]
        ELSE IF IsPtr(kind) /\ item[fi] = <<>>
        THEN EncodeFields(t, fields, item, ln, i + 1, record)
        ELSE IF m.err # NilErr
        THEN [err |-> JoinErr(FieldErr(ln, f), m.err), record |-> record]
        ELSE IF m.str = <<>> /\ f.omitEmpty
        THEN EncodeFields(t, fields, item, ln, i + 1, record)
        ELSE IF m.str = <<>>
        THEN [err |-> JoinErr(FieldErr(ln, f), Sentinel(ErrEmptyValue)),
              record |-> record]
        ELSE EncodeFields(t, fields, item, ln, i + 1,
                          [record EXCEPT ![i] = m.str])

\* record := make([]string, len(c.fields)) and the loop that fills it.
EncodeRecord(t, adapter, item, ln) ==
    EncodeFields(t, adapter.fields, item, ln, 1,
                 [i \in 1..Len(adapter.fields) |-> <<>>])

----------------------------------------------------------------------------
(* The record types and tags of the schema specification *)

\* The segments a tag is made of: empty, the skip marker, omitempty, a bare
\* name, alias=<name>, a segment with two "=", omitempty in key=value form (true, false).
TagSegments ==
    { <<>>, <<"-">>, <<"omitempty">>, <<"y">>,
      <<"alias", "=", "x">>, <<"alias", "=", "x", "=", "y">>,
      <<"omitempty", "=", "true">>, <<"omitempty", "=", "false">> }

RECURSIVE JoinComma(_)
JoinComma(parts) ==
    IF Len(parts) = 1 THEN parts[1]
    ELSE parts[1] \o <<",">> \o JoinComma(Tail(parts))

SegmentLists == UNION { [1..n -> TagSegments] : n \in 1..MaxParts }

Tags == { JoinComma(ps) : ps \in SegmentLists }

\* The tags of one or two segments.
ShortTags == { JoinComma(ps) : ps \in [1..1 -> TagSegments] \cup [1..2 -> TagSegments] }

\* The tags of the two fields of a record type: any tag beside a short one.
TagPairs == (Tags \X ShortTags) \cup (ShortTags \X Tags)

\* The declared fields of the record types of the schema specification.
StructFields == << <<"Name">>, <<"Age">> >>

\* The struct type whose fields carry the tags tg, in order.
StructOf(tg) ==
    [kind |-> "struct",
     fields |-> [i \in 1..Len(StructFields) |->
                   [name |-> StructFields[i], tag |-> tg[i], kind |-> <<"string">>]]]

\* A type that is not a struct.
NotStruct == [kind |-> "string", fields |-> <<>>]

SchemaOptArgs ==
    { <<>>, <<NoImplicitAlias(TRUE)>>, <<NoImplicitAlias(FALSE)>> }

----------------------------------------------------------------------------
(* The record types, records and CSV texts of the codec specification *)

Field(name, tag, kind) == [name |-> name, tag |-> tag, kind |-> kind]

\* type Person struct { Name string `csva:"name"`; Age int `csva:"age"`;
\*                      Email string `csva:"email,omitempty"` }
Person ==
    [kind |-> "struct",
     fields |-> << Field(<<"Name">>, <<"name">>, <<"string">>),
                   Field(<<"Age">>, <<"age">>, <<"int">>),
                   Field(<<"Email">>, <<"email", ",", "omitempty">>, <<"string">>) >>]

\* A record type with a float, an optional pointer and an untagged bool.
Many ==
    [kind |-> "struct",
     fields |-> << Field(<<"SomeFloat">>, <<"some_float">>, <<"float64">>),
                   Field(<<"SomePtr">>, <<"alias", "=", "some_ptr", ",", "omitempty">>,
                         <<"ptr", "string">>),
                   Field(<<"SomeBool">>, <<>>, <<"bool">>) >>]

\* A record type with a skipped field.
Skipping ==
    [kind |-> "struct",
     fields |-> << Field(<<"Name">>, <<"name">>, <<"string">>),
                   Field(<<"Secret">>, <<"-">>, <<"string">>) >>]

\* A record type of one optional column.
Note ==
    [kind |-> "struct",
     fields |-> << Field(<<"Note">>, <<"note", ",", "omitempty">>, <<"string">>) >>]

\* A record type whose number stands before its required text.
AgeFirst ==
    [kind |-> "struct",
     fields |-> << Field(<<"Age">>, <<"age">>, <<"int">>),
                   Field(<<"Name">>, <<"name">>, <<"string">>) >>]

\* A record type that holds a PersonWithManyTypesEmail by value.
Valued ==
    [kind |-> "struct",
     fields |-> << Field(<<"Email">>, <<"email">>, <<"struct", "Email">>) >>]

\* Record types that hold values of the named types through pointers.
Pointers ==
    [kind |-> "struct",
     fields |-> << Field(<<"Email">>, <<"email", ",", "omitempty">>,
                         <<"ptr", "struct", "Email">>),
                   Field(<<"Tagged">>, <<"tagged", ",", "omitempty">>,
                         <<"ptr", "struct", "Tagged">>) >>]

Labels ==
    [kind |-> "struct",
     fields |-> << Field(<<"Label">>, <<"label", ",", "omitempty">>,
                         <<"ptr", "struct", "Label">>),
                   Field(<<"Opaque">>, <<"opaque", ",", "omitempty">>,
                         <<"ptr", "struct", "Opaque">>) >>]

CodecTypes == {Person, Many, Skipping, Note, AgeFirst, Valued, Pointers, Labels}

CodecOptArgs == { <<>>, <<WriteHeader(FALSE)>> }

\* The values a field of a kind takes in the records given to ToCSV.
Values(kind) ==
    CASE kind = <<"string">> -> { <<>>, <<"a">> }
      [] kind = <<"int">> -> { 0, 3 }
      [] kind \in SignedKinds -> { -3, 3 }
      [] kind \in UnsignedKinds -> { 0, 3 }
      [] kind = <<"float64">> -> { 314 * (10 ^ (FloatFrac - 2)), 1 }
      [] kind = <<"bool">> -> { FALSE, TRUE }
      [] kind = <<"ptr", "string">> -> { <<>>, << <<"a">> >>, << <<>> >> }
      [] IsCustom(kind) -> { <<"a">> }
      [] IsPtr(kind) /\ IsCustom(Elem(kind)) -> { <<>>, << <<"a">> >> }

RECURSIVE RecordsFrom(_, _)
RecordsFrom(t, i) ==
    IF i > Len(t.fields) THEN { <<>> }
    ELSE { <<v>> \o rest : v \in Values(t.fields[i].kind), rest \in RecordsFrom(t, i + 1) }

Records(t) == RecordsFrom(t, 1)

SeqsUpTo(S, n) == UNION { [1..k -> S] : k \in 0..n }

\* The sequences of records given to ToCSV.
DataSeqs(t) == SeqsUpTo(Records(t), MaxRecords)

\* The cells a data row may hold, column by column: rows of three cells
\* and rows of two.
RowShapes ==
    { << { <<>>, <<"a">> }, { <<"3">>, <<"a">> }, { <<>>, <<"a">> } >>,
      << { <<"a">> }, { <<"3">>, <<>> } >> }

RowsOf(shape) ==
    { r \in [1..Len(shape) -> { <<>>, <<"a">>, <<"3">> }] :
         \A i \in 1..Len(shape) : r[i] \in shape[i] }

BadLine == << <<"\"">> >>

InputHeaders ==
    { << <<"name">>, <<"age">>, <<"email">> >>,
      << <<"name">>, <<"age">> >>,
      << <<"age">>, <<"email">> >>,
      << <<"email">>, <<"age">>, <<"name">> >>,
      << <<"name">>, <<"age">>, <<"name">> >>,
      BadLine }

InputRows ==
    UNION { RowsOf(shape) : shape \in RowShapes } \cup { BadLine, <<>> }

\* The CSV texts given to FromCSV: nothing at all, or a header line and
\* data lines.
Inputs ==
    { <<>> } \cup
    { <<h>> \o rows : h \in InputHeaders, rows \in SeqsUpTo(InputRows, MaxLines - 1) }

----------------------------------------------------------------------------
(* The record types and CSV texts of the sized integer kinds *)

\* type Num struct { N <kind> `csva:"n"` }
Num(kind) ==
    [kind |-> "struct", fields |-> << Field(<<"N">>, <<"n">>, kind) >>]

IntTypes == { Num(kind) : kind \in SignedKinds \cup UnsignedKinds }

\* A cell that spells the number n, with n.
Spelled(n) == [cell |-> IntText(n), val |-> n]

\* Cells that spell a number of the kind, with the number: small ones, one
\* with a plus sign, one with leading zeros, and the ends of the range
\* where the integers of the checker reach them.
InRange(kind) ==
    LET w == BitSize(kind)
    IN  IF kind \in SignedKinds
        THEN { Spelled(-3), Spelled(3),
               [cell |-> <<"+", "3">>, val |-> 3],
               [cell |-> <<"0", "0", "7">>, val |-> 7] } \cup
             (IF w <= 16 THEN { Spelled(2 ^ (w - 1) - 1), Spelled(-(2 ^ (w - 1))) }
              ELSE IF w = 32
              THEN { Spelled(2147483647),
                     [cell |-> <<"-">> \o Pow2Text(31), val |-> -2147483647 - 1] }
              ELSE { Spelled(2147483647) })
        ELSE { Spelled(0), Spelled(3),
               [cell |-> <<"0", "0", "7">>, val |-> 7] } \cup
             (IF w <= 16 THEN { Spelled(2 ^ w - 1) } ELSE { Spelled(2147483647) })

\* The digits of 2^(w-1) + 1.
BelowMinText(w) ==
    CASE w = 8 -> <<"1", "2", "9">>
      [] w = 16 -> <<"3", "2", "7", "6", "9">>
      [] w = 32 -> <<"2", "1", "4", "7", "4", "8", "3", "6", "4", "9">>
      [] w = 64 -> <<"9", "2", "2", "3", "3", "7", "2", "0", "3", "6", "8", "5", "4", "7", "7", "5", "8", "0", "9">>

\* Cells that spell a number just outside the range of the kind.
OutOfRange(kind) ==
    LET w == BitSize(kind)
    IN  IF kind \in SignedKinds
        THEN { Pow2Text(w - 1), <<"-">> \o BelowMinText(w) }
        ELSE { Pow2Text(w), <<"-", "3">> }

\* Cells that spell no number.
Malformed == { <<"a">>, <<"3", "a">> }

IntCells(kind) ==
    { e.cell : e \in InRange(kind) } \cup OutOfRange(kind) \cup Malformed

IntInputs(kind) ==
    { << << <<"n">> >> >> \o rows :
          rows \in SeqsUpTo({ <<c>> : c \in IntCells(kind) }, MaxLines - 1) }

\* The CSV texts of the record types that are there for what ToCSV does
\* with them: an email column alone or with a name and an age.
ShortInputs ==
    { <<>> } \cup
    { <<h>> \o rows :
          h \in { << <<"email">> >>, << <<"name">>, <<"age">>, <<"email">> >> },
          rows \in SeqsUpTo({ << <<"a">> >>, << <<"a">>, <<"3">>, <<"a">> >> },
                            MaxLines - 1) }

\* type Hidden struct { Name string `csva:"name"`; secret <kind> `csva:<tag>` }
Hidden(kind, tag) ==
    [kind |-> "struct",
     fields |-> << Field(<<"Name">>, <<"name">>, <<"string">>),
                   Field(<<"secret">>, tag, kind) >>]

\* Record types with a field that is not exported, of a kind of each way
\* through unmarshalField, tagged with an alias or with the skip marker.
HiddenTypes ==
    { Hidden(kind, <<"secret">>) :
          kind \in { <<"string">>, <<"int">>, <<"ptr", "string">>,
                     <<"struct", "Email">> } }
    \cup { Hidden(<<"string">>, <<"-">>),
           Hidden(<<"string">>, <<"secret", ",", "omitempty">>) }

\* The CSV texts for them: a name column alone or with a secret column,
\* the secret cell empty, a number or no number.
HiddenInputs ==
    { <<h>> \o rows :
          h \in { << <<"name">> >>, << <<"name">>, <<"secret">> >> },
          rows \in SeqsUpTo({ << <<"a">> >>, << <<"a">>, <<>> >>,
                              << <<"a">>, <<"3">> >>, << <<"a">>, <<"a">> >> },
                            MaxLines - 1) }

\* The CSV texts given to FromCSV for the record type.
InputsOf(t) ==
    IF t \in IntTypes THEN IntInputs(t.fields[1].kind)
    ELSE IF t \in HiddenTypes THEN HiddenInputs
    ELSE IF t \in {Person, AgeFirst} THEN Inputs
    ELSE ShortInputs

----------------------------------------------------------------------------
(* Actions *)

\* No call of FromCSV or ToCSV has been made.
NoCalls ==
    /\ rphase = "idle"
    /\ wphase = "idle"
    /\ reader = NewReader(<<>>, "none")
    /\ columnsOrder = EmptyMap
    /\ fromErr = NilErr
    /\ line = 0
    /\ yielded = <<>>
    /\ answers = <<>>
    /\ data = <<>>
    /\ pulled = 0
    /\ wbuf = <<>>
    /\ sink = <<>>
    /\ sinkAccepts = TRUE
    /\ writerErr = NilErr
    /\ toErr = NilErr

InitSchema ==
    /\ \/ \E tg \in TagPairs : structType = StructOf(tg)
       \/ structType = NotStruct
    /\ optArgs \in SchemaOptArgs
    /\ phase = "start"
    /\ csvAdapter = NilAdapter
    /\ newErr = NilErr
    /\ NoCalls

\* adapter, err := NewCSVAdapter[T](options...)
NewCSVAdapter ==
    /\ phase = "start"
    /\ LET r == BuildAdapter(structType, optArgs)
       IN  /\ csvAdapter' = r.adapter
           /\ newErr' = r.err
           /\ phase' = IF r.err = NilErr THEN "built" ELSE "failed"
    /\ UNCHANGED <<structType, optArgs, sharedVars, readVars, writeVars>>

NextSchema == NewCSVAdapter

SpecSchema == InitSchema /\ [][NextSchema]_vars

Init ==
    /\ structType \in CodecTypes
    /\ optArgs \in CodecOptArgs
    /\ phase = "start"
    /\ csvAdapter = NilAdapter
    /\ newErr = NilErr
    /\ NoCalls

\* The steps of FromCSV and ToCSV are written for the position cur of the
\* call they belong to and its next value nxt: phase for the calls the
\* program makes one after the other, rphase and wphase for two calls that
\* run side by side.

\* seq, err := adapter.FromCSV(reader) on the CSV text lines.
FromCSVOn(nxt, lines, src) ==
    LET r == FromCSVCall(csvAdapter, lines, src)
    IN  /\ reader' = r.reader
        /\ columnsOrder' = r.columnsOrder
        /\ fromErr' = r.err
        /\ nxt = IF r.seq THEN "reading" ELSE "readFailed"
        /\ line' = 0
        /\ yielded' = <<>>
        /\ answers' = <<>>

\* seq, err := adapter.FromCSV(reader), on a CSV text of the caller or on
\* what a finished ToCSV has written.
FromCSV ==
    /\ phase \in {"built", "wrote"}
    /\ \E lines \in IF phase = "built" THEN InputsOf(structType) ELSE {sink} :
         FromCSVOn(phase', lines, IF phase = "built" THEN "input" ELSE "sink")
    /\ UNCHANGED <<sharedVars, schemaVars, writeVars>>

\* The mutant of Pull that ends the sequence at a line that cannot be read.
PullStopsAtError(stop) ==
    /\ phase = "reading"
    /\ LET r == Read(reader)
       IN  /\ reader' = r.reader
           /\ line' = line + 1
           /\ IF r.err # NilErr
              THEN /\ ~stop
                   /\ yielded' = yielded
                   /\ answers' = answers
                   /\ phase' = "readDone"
              ELSE /\ yielded' = Append(yielded,
                                    DecodeRow(structType, csvAdapter, columnsOrder,
                                              r.record, line + 1))
                   /\ answers' = Append(answers, ~stop)
                   /\ phase' = IF stop THEN "readStopped" ELSE "reading"
    /\ UNCHANGED <<sharedVars, schemaVars, columnsOrder, fromErr, writeVars>>

\* The mutant of Pull that reads on after the consumer has said stop.
PullIgnoresStop(stop) ==
    /\ phase = "reading"
    /\ LET r == Read(reader)
       IN  /\ reader' = r.reader
           /\ line' = line + 1
           /\ IF Is(r.err, EOF)
              THEN /\ ~stop
                   /\ UNCHANGED <<yielded, answers>>
                   /\ phase' = "readDone"
              ELSE /\ yielded' = Append(yielded,
                        IF r.err # NilErr
                        THEN [rec |-> ZeroRecord(structType),
                              err |-> JoinErr(Sentinel(ErrReadingCSVLines), r.err)]
                        ELSE DecodeRow(structType, csvAdapter, columnsOrder,
                                       r.record, line + 1))
                   /\ answers' = Append(answers, ~stop)
                   /\ phase' = "reading"
    /\ UNCHANGED <<sharedVars, schemaVars, columnsOrder, fromErr, writeVars>>

\* One iteration of loopOverLines, driven by the consumer of the sequence;
\* stop is the consumer's answer to the pair it is handed.  A panic in
\* unmarshalField leaves the loop and the consumer's range statement with
\* no pair handed over: the call is at "readPanicked".
PullOn(cur, nxt, stop) ==
    /\ cur = "reading"
    /\ LET r == Read(reader)
           pair == IF r.err # NilErr
                   THEN [rec |-> ZeroRecord(structType),
                         err |-> JoinErr(Sentinel(ErrReadingCSVLines), r.err)]
                   ELSE DecodeRow(structType, csvAdapter, columnsOrder,
                                  r.record, line + 1)
       IN  /\ reader' = r.reader
           /\ line' = line + 1
           /\ IF Is(r.err, EOF)
              THEN /\ ~stop
                   /\ yielded' = yielded
                   /\ answers' = answers
                   /\ nxt = "readDone"
              ELSE IF Is(pair.err, PanicUnexported)
              THEN /\ ~stop
                   /\ yielded' = yielded
                   /\ answers' = answers
                   /\ nxt = "readPanicked"
              ELSE /\ yielded' = Append(yielded, pair)
                   /\ answers' = Append(answers, ~stop)
                   /\ nxt = IF stop THEN "readStopped" ELSE "reading"
    /\ UNCHANGED <<columnsOrder, fromErr>>

Pull(stop) ==
    /\ PullOn(phase, phase', stop)
    /\ UNCHANGED <<sharedVars, schemaVars, writeVars>>

\* The buffered writer of the running ToCSV call.
Writer == [buf |-> wbuf, sink |-> sink, accepts |-> sinkAccepts, err |-> writerErr]

WriterBecomes(w) ==
    /\ wbuf' = w.buf
    /\ sink' = w.sink
    /\ writerErr' = w.err

\* ToCSV returns err; the deferred csvWriter.Flush() runs on the way out.
ReturnFromToCSV(nxt, w, err) ==
    /\ toErr' = err
    /\ WriterBecomes(Flush(w))
    /\ nxt = IF err = NilErr THEN "wrote" ELSE "writeFailed"

\* ToCSV goes on with the writer w.
GoOnInToCSV(nxt, w) ==
    /\ toErr' = toErr
    /\ WriterBecomes(w)
    /\ nxt = "writing"

\* err := adapter.ToCSV(writer, data), up to the first record: the header.
ToCSVOn(nxt, records, accepts) ==
    /\ data' = records
    /\ pulled' = 0
    /\ sinkAccepts' = accepts
    /\ IF csvAdapter.options.writeHeader
       THEN LET r == Write(NewWriter(accepts), HeaderOf(csvAdapter))
            IN  IF r.err # NilErr
                THEN ReturnFromToCSV(nxt, r.writer, JoinErr(Sentinel(ErrReadingCSV), r.err))
                ELSE GoOnInToCSV(nxt, r.writer)
       ELSE GoOnInToCSV(nxt, NewWriter(accepts))

ToCSV ==
    /\ phase = "built"
    /\ \E records \in DataSeqs(structType) : \E accepts \in BOOLEAN :
         ToCSVOn(phase', records, accepts)
    /\ UNCHANGED <<sharedVars, schemaVars, readVars>>

\* The mutant of ToCSVRecord that writes each row before the rows written.
ToCSVRecordPrepends ==
    /\ phase = "writing"
    /\ pulled < Len(data)
    /\ pulled' = pulled + 1
    /\ LET r == EncodeRecord(structType, csvAdapter, data[pulled + 1], pulled + 1)
       IN  IF r.err # NilErr
           THEN ReturnFromToCSV(phase', Writer, r.err)
           ELSE /\ wbuf' = <<WriteLine(r.record)>> \o wbuf
                /\ UNCHANGED <<toErr, sink, writerErr, phase>>
    /\ UNCHANGED <<sharedVars, schemaVars, readVars, data, sinkAccepts>>

\* The mutant of ToCSVRecord that leaves out a record it cannot encode and
\* goes on with the next.
ToCSVRecordSkipsFailed ==
    /\ phase = "writing"
    /\ pulled < Len(data)
    /\ pulled' = pulled + 1
    /\ LET r == EncodeRecord(structType, csvAdapter, data[pulled + 1], pulled + 1)
       IN  IF r.err # NilErr
           THEN /\ toErr' = r.err
                /\ UNCHANGED <<wbuf, sink, writerErr, phase>>
           ELSE LET w == Write(Writer, r.record)
                IN  IF w.err # NilErr
                    THEN ReturnFromToCSV(phase', w.writer,
                                         JoinErr(Sentinel(ErrReadingCSV), w.err))
                    ELSE GoOnInToCSV(phase', w.writer)
    /\ UNCHANGED <<sharedVars, schemaVars, readVars, data, sinkAccepts>>

\* One iteration of `for item := range data`; a return from inside the
\* loop runs the deferred csvWriter.Flush().
ToCSVRecordOn(cur, nxt) ==
    /\ cur = "writing"
    /\ pulled < Len(data)
    /\ pulled' = pulled + 1
    /\ LET r == EncodeRecord(structType, csvAdapter, data[pulled + 1], pulled + 1)
       IN  IF r.err # NilErr
           THEN ReturnFromToCSV(nxt, Writer, r.err)
           ELSE LET w == Write(Writer, r.record)
                IN  IF w.err # NilErr
                    THEN ReturnFromToCSV(nxt, w.writer,
                                         JoinErr(Sentinel(ErrReadingCSV), w.err))
                    ELSE GoOnInToCSV(nxt, w.writer)
    /\ UNCHANGED <<data, sinkAccepts>>

ToCSVRecord ==
    /\ ToCSVRecordOn(phase, phase')
    /\ UNCHANGED <<sharedVars, schemaVars, readVars>>

\* The sequence is exhausted: return nil, with the deferred Flush().
ToCSVReturnOn(cur, nxt) ==
    /\ cur = "writing"
    /\ pulled = Len(data)
    /\ ReturnFromToCSV(nxt, Writer, NilErr)
    /\ UNCHANGED <<data, pulled, sinkAccepts>>

ToCSVReturn ==
    /\ ToCSVReturnOn(phase, phase')
    /\ UNCHANGED <<sharedVars, schemaVars, readVars>>

Next ==
    \/ NewCSVAdapter
    \/ FromCSV
    \/ \E stop \in BOOLEAN : Pull(stop)
    \/ ToCSV
    \/ ToCSVRecord
    \/ ToCSVReturn

Spec == Init /\ [][Next]_vars

----------------------------------------------------------------------------
(* A FromCSV call and a ToCSV call on the same adapter, each with its own  *)
(* reader or writer, whose steps come in any order.                        *)

SharedTypes == {Person}

\* The CSV texts of the FromCSV call: rows that decode, that fail in a
\* field, and of the wrong width.
SharedRows ==
    { << <<"a">>, <<"3">>, <<>> >>, << <<"a">>, <<"a">>, <<>> >>,
      << <<"a">>, <<"3">> >> }

SharedInputs ==
    { << << <<"name">>, <<"age">>, <<"email">> >> >> \o rows :
          rows \in SeqsUpTo(SharedRows, MaxLines - 1) }

\* The records of the ToCSV call: one that encodes and one that does not.
SharedRecords == { << <<"a">>, 3, <<>> >>, << <<>>, 3, <<"a">> >> }

SharedData == SeqsUpTo(SharedRecords, MaxRecords)

InitShared ==
    /\ structType \in SharedTypes
    /\ optArgs \in CodecOptArgs
    /\ phase = "start"
    /\ csvAdapter = NilAdapter
    /\ newErr = NilErr
    /\ NoCalls

SharedFromCSV ==
    /\ phase = "built"
    /\ rphase = "idle"
    /\ \E lines \in SharedInputs : FromCSVOn(rphase', lines, "input")
    /\ UNCHANGED <<phase, wphase, schemaVars, writeVars>>

\* The mutant of SharedPull that takes the first descriptor off the
\* adapter's field list.
SharedPullTrimsFields(stop) ==
    /\ phase = "built"
    /\ PullOn(rphase, rphase', stop)
    /\ csvAdapter' = [csvAdapter EXCEPT !.fields = Tail(@)]
    /\ UNCHANGED <<phase, wphase, structType, optArgs, newErr, writeVars>>

SharedPull(stop) ==
    /\ phase = "built"
    /\ PullOn(rphase, rphase', stop)
    /\ UNCHANGED <<phase, wphase, schemaVars, writeVars>>

SharedToCSV ==
    /\ phase = "built"
    /\ wphase = "idle"
    /\ \E records \in SharedData : \E accepts \in BOOLEAN :
         ToCSVOn(wphase', records, accepts)
    /\ UNCHANGED <<phase, rphase, schemaVars, readVars>>

SharedToCSVRecord ==
    /\ phase = "built"
    /\ ToCSVRecordOn(wphase, wphase')
    /\ UNCHANGED <<phase, rphase, schemaVars, readVars>>

SharedToCSVReturn ==
    /\ phase = "built"
    /\ ToCSVReturnOn(wphase, wphase')
    /\ UNCHANGED <<phase, rphase, schemaVars, readVars>>

NextShared ==
    \/ NewCSVAdapter
    \/ SharedFromCSV
    \/ \E stop \in BOOLEAN : SharedPull(stop)
    \/ SharedToCSV
    \/ SharedToCSVRecord
    \/ SharedToCSVReturn

SpecShared == InitShared /\ [][NextShared]_vars

\* The calls of Spec on the record types of the sized integer kinds.
InitInt ==
    /\ structType \in IntTypes
    /\ optArgs \in CodecOptArgs
    /\ phase = "start"
    /\ csvAdapter = NilAdapter
    /\ newErr = NilErr
    /\ NoCalls

SpecInt == InitInt /\ [][Next]_vars

\* The calls on the record types with a field that is not exported.
InitHidden ==
    /\ structType \in HiddenTypes
    /\ optArgs \in CodecOptArgs
    /\ phase = "start"
    /\ csvAdapter = NilAdapter
    /\ newErr = NilErr
    /\ NoCalls

SpecHidden == InitHidden /\ [][Next]_vars

----------------------------------------------------------------------------
(* A FromCSV call whose sequence is ranged over to its end: the consumer   *)
(* answers every pair with true.  The reader under the call is one that    *)
(* reports io.EOF after the text or one that fails from there on.          *)

\* The data lines: a well-formed row, one whose age is no number, one of
\* another width than the header, one that does not parse, a blank line.
SourceRows ==
    { << <<"3">>, <<"a">> >>, << <<"a">>, <<"a">> >>,
      << <<"a">> >>, BadLine, <<>> }

SourceInputs ==
    { <<>> } \cup
    { << << <<"age">>, <<"name">> >> >> \o rows :
          rows \in SeqsUpTo(SourceRows, MaxLines - 1) }

InitSource ==
    /\ structType = AgeFirst
    /\ optArgs = <<>>
    /\ phase = "start"
    /\ csvAdapter = NilAdapter
    /\ newErr = NilErr
    /\ NoCalls

\* seq, err := adapter.FromCSV(reader), on either reader.
SourceFromCSV ==
    /\ phase = "built"
    /\ \E lines \in SourceInputs, src \in {"input", "failing"} :
         FromCSVOn(phase', lines, src)
    /\ UNCHANGED <<sharedVars, schemaVars, writeVars>>

\* The mutant of SourcePull that leaves the loop at any error of Read.
SourcePullBreaksOnError ==
    /\ Len(yielded) < MaxLines
    /\ phase = "reading"
    /\ LET r == Read(reader)
       IN  /\ reader' = r.reader
           /\ line' = line + 1
           /\ IF r.err # NilErr
              THEN /\ yielded' = yielded
                   /\ answers' = answers
                   /\ phase' = "readDone"
              ELSE /\ yielded' = Append(yielded,
                                    DecodeRow(structType, csvAdapter, columnsOrder,
                                              r.record, line + 1))
                   /\ answers' = Append(answers, TRUE)
                   /\ phase' = "reading"
    /\ UNCHANGED <<sharedVars, schemaVars, columnsOrder, fromErr, writeVars>>

\* One iteration of loopOverLines under `for rec, err := range seq` with no
\* break; the pairs followed are at most MaxLines.
SourcePull ==
    /\ Len(yielded) < MaxLines
    /\ PullOn(phase, phase', FALSE)
    /\ UNCHANGED <<sharedVars, schemaVars, writeVars>>

NextSource ==
    \/ NewCSVAdapter
    \/ SourceFromCSV
    \/ SourcePull

\* The consumer goes on ranging over the sequence as long as it can.
SpecSource == InitSource /\ [][NextSource]_vars /\ WF_vars(SourcePull)

----------------------------------------------------------------------------
(* Vocabulary of the claims about the schema builder.  These describe a    *)
(* tag by its segments, without running the tag loop.                      *)

Segments(tag) == Split(tag, ",")

NumFields == Len(structType.fields)

TagOf(i) == structType.fields[i].tag

NameOf(i) == structType.fields[i].name

NumEq(seg) == Cardinality({k \in 1..Len(seg) : seg[k] = "="})

\* The text of a segment before its first "=".
KeyOf(seg) ==
    IF NumEq(seg) = 0 THEN seg
    ELSE SubSeq(seg, 1, (CHOOSE k \in 1..Len(seg) :
                            seg[k] = "=" /\ \A m \in 1..(k - 1) : seg[m] # "=") - 1)

\* The text of a segment with one "=" after that "=".
ValueOf(seg) ==
    SubSeq(seg, Len(KeyOf(seg)) + 2, Len(seg))

\* A bare (positional) segment: no "=", not empty, not "omitempty", not "-".
IsBare(seg) ==
    /\ NumEq(seg) = 0
    /\ seg \notin {<<>>, TAG_SKIP, TAG_OMITEMPTY}

\* A segment alias=<value>.
IsAliasKV(seg) == NumEq(seg) = 1 /\ KeyOf(seg) = TAG_ALIAS

HasSkip(tag) == \E q \in 1..Len(Segments(tag)) : Segments(tag)[q] = TAG_SKIP

\* A segment that names the alias by position or by an unknown key.
IsPositional(seg) ==
    /\ seg \notin {<<>>, TAG_SKIP}
    /\ NumEq(seg) <= 1
    /\ KeyOf(seg) \notin {TAG_ALIAS, TAG_OMITEMPTY}

\* Segment q of segs is one the tag loop rejects when it gets there.
RejectedAt(segs, q) ==
    \/ NumEq(segs[q]) > 1
    \/ IsPositional(segs[q]) /\ \E p \in 1..(q - 1) : IsPositional(segs[p])

\* The tag has a "-" segment with no rejected segment before it.
CleanSkip(tag) ==
    \E q \in 1..Len(Segments(tag)) :
        /\ Segments(tag)[q] = TAG_SKIP
        /\ \A p \in 1..(q - 1) : ~RejectedAt(Segments(tag), p)

\* A valid tag that names one alias: one bare name or one alias=<name>,
\* and otherwise only omitempty.
AliasTagged(tag) ==
    LET segs == Segments(tag)
        carriers == {q \in 1..Len(segs) :
                        IsBare(segs[q]) \/ (IsAliasKV(segs[q]) /\ ValueOf(segs[q]) # <<>>)}
    IN  /\ Cardinality(carriers) = 1
        /\ \A q \in 1..Len(segs) : q \in carriers \/ segs[q] = TAG_OMITEMPTY

ImplicitOn == optArgs \in {<<>>, <<NoImplicitAlias(FALSE)>>}

FieldNames == [k \in 1..Len(csvAdapter.fields) |-> csvAdapter.fields[k].name]

NamesWhere(Keep(_)) ==
    LET kept == SelectSeq([i \in 1..NumFields |-> i], Keep)
    IN  [k \in 1..Len(kept) |-> NameOf(kept[k])]

Returned == phase \in {"built", "failed"}

----------------------------------------------------------------------------
(* C2: whenever NewCSVAdapter succeeds, the field list holds exactly one   *)
(* descriptor per field whose tag has no "-" segment, in declaration       *)
(* order, and no descriptor of a field whose tag has one.                  *)

NotSkipped(i) == ~HasSkip(TagOf(i))

C2_FieldListIsNonSkippedInOrder ==
    phase = "built" => FieldNames = NamesWhere(NotSkipped)

C2_Witness ==
    /\ phase = "built"
    /\ HasSkip(TagOf(1))
    /\ ~HasSkip(TagOf(2))
    /\ FieldNames = <<NameOf(2)>>

----------------------------------------------------------------------------
(* C3: a field with an empty tag takes its own name as alias when implicit *)
(* aliasing is enabled and never makes construction fail then; with        *)
(* NoImplicitAlias(true) construction fails, with ErrAliasNotFound when    *)
(* the fields before it are validly tagged.  A type whose fields all name  *)
(* an alias in their tag constructs under either setting.                  *)

EmptyTag(i) == TagOf(i) = <<>>

DescriptorOf(i) ==
    CHOOSE f \in {csvAdapter.fields[k] : k \in 1..Len(csvAdapter.fields)} :
        f.name = NameOf(i)

C3_ImplicitAlias ==
    /\ (phase = "built" /\ ImplicitOn) =>
          \A i \in 1..NumFields :
              EmptyTag(i) =>
                  /\ NameOf(i) \in {FieldNames[k] : k \in 1..Len(FieldNames)}
                  /\ DescriptorOf(i).alias = NameOf(i)
    /\ (Returned /\ structType.kind = "struct" /\ ImplicitOn
            /\ \A i \in 1..NumFields : EmptyTag(i) \/ AliasTagged(TagOf(i)))
          => phase = "built"
    /\ (Returned /\ ~ImplicitOn) =>
          \A i \in 1..NumFields :
              EmptyTag(i) =>
                  /\ phase = "failed"
                  /\ csvAdapter.isNil
                  /\ (\A j \in 1..(i - 1) : AliasTagged(TagOf(j)))
                        => Is(newErr, ErrAliasNotFound)
    /\ (Returned /\ structType.kind = "struct"
            /\ \A i \in 1..NumFields : AliasTagged(TagOf(i)))
          => phase = "built"

C3_Witness ==
    /\ phase = "failed"
    /\ structType.kind = "struct"
    /\ optArgs = <<NoImplicitAlias(TRUE)>>
    /\ AliasTagged(TagOf(1))
    /\ EmptyTag(2)
    /\ Is(newErr, ErrAliasNotFound)

----------------------------------------------------------------------------
(* C4: alias precedence.  Whenever NewCSVAdapter succeeds, a field whose   *)
(* tag has a segment alias=<value> has the alias <value>, whatever bare    *)
(* segments stand before or after it; the first bare segment decides only  *)
(* when there is no alias=<value>, the field name only when there is       *)
(* neither.                                                                *)

AliasKVs(tag) ==
    {q \in 1..Len(Segments(tag)) : IsAliasKV(Segments(tag)[q])}

Bares(tag) ==
    {q \in 1..Len(Segments(tag)) : IsBare(Segments(tag)[q])}

FirstOf(S) == CHOOSE q \in S : \A r \in S : q <= r

C4_AliasPrecedence ==
    phase = "built" =>
        \A i \in 1..NumFields :
            NotSkipped(i) =>
                LET tag == TagOf(i)
                    alias == DescriptorOf(i).alias
                IN  /\ AliasKVs(tag) # {} =>
                          \E q \in AliasKVs(tag) : alias = ValueOf(Segments(tag)[q])
                    /\ (AliasKVs(tag) = {} /\ Bares(tag) # {}) =>
                          alias = Segments(tag)[FirstOf(Bares(tag))]
                    /\ (AliasKVs(tag) = {} /\ Bares(tag) = {}) =>
                          alias = NameOf(i)

----------------------------------------------------------------------------
(* C5: a bare segment that comes after a segment that set the alias, by    *)
(* position or by alias=<value>, makes construction fail with              *)
(* ErrUnsupportedTag.  Stated for a segment the tag loop gets to: the      *)
(* fields before it are validly tagged, and no "-" and no segment with     *)
(* more than one "=" stands before it in its tag.                          *)

C5_BareAfterAliasUnsupported ==
    Returned =>
        \A i \in 1..NumFields :
            LET segs == Segments(TagOf(i))
            IN  \A q \in 1..Len(segs) :
                    ( /\ \A j \in 1..(i - 1) : AliasTagged(TagOf(j))
                      /\ IsBare(segs[q])
                      /\ \E p \in 1..(q - 1) : IsBare(segs[p]) \/ IsAliasKV(segs[p])
                      /\ \A p \in 1..(q - 1) : segs[p] # TAG_SKIP /\ NumEq(segs[p]) <= 1 )
                    => /\ phase = "failed"
                       /\ Is(newErr, ErrUnsupportedTag)

----------------------------------------------------------------------------
(* C6: a "-" segment anywhere in a tag excludes the field and construction *)
(* goes on with the next field, no other segment of that tag being         *)
(* reported.                                                               *)

\* As claimed: wherever the "-" stands.
C6_SkipAnywhere ==
    ( /\ Returned
      /\ structType.kind = "struct"
      /\ \A i \in 1..NumFields : HasSkip(TagOf(i)) \/ AliasTagged(TagOf(i)) )
    => /\ phase = "built"
       /\ FieldNames = NamesWhere(NotSkipped)

NotCleanSkipped(i) == ~CleanSkip(TagOf(i))

\* As amended: the "-" excludes the field when no segment before it is
\* rejected, the segments after it are never examined; a rejected segment
\* before the "-" fails construction all the same.
C6_SkipWhenReached ==
    /\ ( /\ Returned
         /\ structType.kind = "struct"
         /\ \A i \in 1..NumFields : CleanSkip(TagOf(i)) \/ AliasTagged(TagOf(i)) )
       => /\ phase = "built"
          /\ FieldNames = NamesWhere(NotCleanSkipped)
    /\ Returned =>
          \A i \in 1..NumFields :
              ( /\ HasSkip(TagOf(i))
                /\ ~CleanSkip(TagOf(i))
                /\ \A j \in 1..(i - 1) : CleanSkip(TagOf(j)) \/ AliasTagged(TagOf(j)) )
              => /\ phase = "failed"
                 /\ Is(newErr, ErrInvalidTag) \/ Is(newErr, ErrUnsupportedTag)

C6_Witness ==
    /\ phase = "built"
    /\ Segments(TagOf(1))[1] = TAG_SKIP
    /\ Len(Segments(TagOf(1))) = 2
    /\ NumEq(Segments(TagOf(1))[2]) > 1
    /\ AliasTagged(TagOf(2))
    /\ FieldNames = <<NameOf(2)>>

----------------------------------------------------------------------------
(* C7: a segment with more than one "=" makes construction fail with       *)
(* ErrInvalidTag and no adapter is returned, even when the other fields    *)
(* are validly tagged.                                                     *)

\* As claimed: any such segment.
C7_MultiEqAlwaysInvalid ==
    Returned =>
        \A i \in 1..NumFields :
            ( /\ \E q \in 1..Len(Segments(TagOf(i))) : NumEq(Segments(TagOf(i))[q]) > 1
              /\ \A j \in 1..NumFields : j # i => AliasTagged(TagOf(j)) )
            => /\ phase = "failed"
               /\ Is(newErr, ErrInvalidTag)
               /\ csvAdapter.isNil

\* As amended: a segment the tag loop gets to, that is one with no "-" and
\* no rejected segment before it in its tag, in a field whose predecessors
\* do not fail; the fields after it are never looked at.
C7_MultiEqInvalidWhenReached ==
    Returned =>
        \A i \in 1..NumFields :
            LET segs == Segments(TagOf(i))
            IN  ( /\ \E q \in 1..Len(segs) :
                        /\ NumEq(segs[q]) > 1
                        /\ \A p \in 1..(q - 1) :
                              segs[p] # TAG_SKIP /\ ~RejectedAt(segs, p)
                  /\ \A j \in 1..(i - 1) : CleanSkip(TagOf(j)) \/ AliasTagged(TagOf(j)) )
                => /\ phase = "failed"
                   /\ Is(newErr, ErrInvalidTag)
                   /\ csvAdapter.isNil

C7_Witness ==
    /\ phase = "failed"
    /\ structType.kind = "struct"
    /\ AliasTagged(TagOf(1))
    /\ NumEq(Segments(TagOf(2))[1]) > 1
    /\ Is(newErr, ErrInvalidTag)
    /\ csvAdapter.isNil

----------------------------------------------------------------------------
(* Vocabulary of the claims about FromCSV and ToCSV.  These describe the   *)
(* CSV text the reader was given by its lines, without running the reader. *)

\* FromCSV has returned to its caller.
FromCSVReturned == phase \in {"reading", "readDone", "readStopped", "readFailed"}

\* FromCSV has returned a sequence.
SequenceReturned == phase \in {"reading", "readDone", "readStopped"}

\* The lines of the text that are not blank: the header row, then the data rows.
TextLines == SelectSeq(reader.lines, LAMBDA l : l \notin { <<>>, << <<>> >> })

HeaderRow == TextLines[1]

DataRows == Tail(TextLines)

HeaderUnreadable == TextLines = <<>> \/ IsBadLine(HeaderRow)

HeaderCells == { HeaderRow[i] : i \in 1..Len(HeaderRow) }

\* The position in the text of its header row.
HeaderIndex ==
    CHOOSE p \in 1..Len(reader.lines) :
        /\ reader.lines[p] \notin { <<>>, << <<>> >> }
        /\ \A q \in 1..(p - 1) : reader.lines[q] \in { <<>>, << <<>> >> }

AdapterFields == { csvAdapter.fields[i] : i \in 1..Len(csvAdapter.fields) }

KindOf(f) == structType.fields[FieldByName(structType, f.name)].kind

\* The value of descriptor f's field in record rec.
ValueIn(rec, f) == rec[FieldByName(structType, f.name)]

\* Some field that is not omitempty has an alias absent from the header row.
MissingRequired == \E f \in AdapterFields : ~f.omitEmpty /\ f.alias \notin HeaderCells

\* The header row lacks the alias of an omitempty field.
MissingOptional == \E f \in AdapterFields : f.omitEmpty /\ f.alias \notin HeaderCells

\* The column a header cell names: the last one of that name.
ColumnOf(alias) ==
    CHOOSE i \in 1..Len(HeaderRow) :
        /\ HeaderRow[i] = alias
        /\ \A j \in (i + 1)..Len(HeaderRow) : HeaderRow[j] # alias

WrongCount(row) == ~IsBadLine(row) /\ Len(row) # Len(HeaderRow)

\* Some value of the kind is written as this cell.
Readable(kind, cell) ==
    CASE kind \in { <<"string">>, <<"ptr", "string">> } -> TRUE
      [] kind = <<"int">> -> \E n \in 0..9 : IntText(n) = cell
      [] kind = <<"bool">> -> cell \in { BoolText(TRUE), BoolText(FALSE) }
      [] kind = <<"float64">> -> ParseFloat(cell).ok
      [] IsCustom(kind) -> TextUnmarshaler \in Implements(kind[2])
      [] IsPtr(kind) /\ IsCustom(Elem(kind)) -> TextUnmarshaler \in Implements(kind[3])
      [] OTHER -> FALSE

\* A row of the header's width whose cells are what the fields ask for.
WellFormed(row) ==
    /\ ~IsBadLine(row)
    /\ Len(row) = Len(HeaderRow)
    /\ \A f \in AdapterFields :
          f.alias \in HeaderCells =>
             \/ row[ColumnOf(f.alias)] = <<>> /\ f.omitEmpty
             \/ row[ColumnOf(f.alias)] # <<>> /\ Readable(KindOf(f), row[ColumnOf(f.alias)])

\* rec is the record the row stands for.
DecodedFrom(rec, row) ==
    \A f \in AdapterFields :
       IF f.alias \in HeaderCells /\ row[ColumnOf(f.alias)] # <<>>
       THEN marshalField(KindOf(f), ValueIn(rec, f), TRUE).str = row[ColumnOf(f.alias)]
       ELSE ValueIn(rec, f) = Zero(KindOf(f))

----------------------------------------------------------------------------
(* C8.  When FromCSV is given a text whose header row cannot be read, an   *)
(* empty text included, it returns an error that wraps the cause (io.EOF   *)
(* for the empty text) and no sequence, and no pair is yielded.            *)
C8_UnreadableHeaderFails ==
    (FromCSVReturned /\ HeaderUnreadable) =>
        /\ phase = "readFailed"
        /\ Is(fromErr, ErrReadingCSVLines)
        /\ IF TextLines = <<>> THEN Is(fromErr, EOF) ELSE Is(fromErr, ParseError)
        /\ yielded = <<>>

C8_Witness ==
    /\ phase = "readFailed"
    /\ reader.src = "input"
    /\ reader.lines = <<>>
    /\ Is(fromErr, EOF)

----------------------------------------------------------------------------
(* C9.  Given a text with a readable header row, FromCSV fails with        *)
(* ErrFieldNotFound, with no data row read and no pair yielded, exactly    *)
(* when a field that is not omitempty has an alias absent from the header; *)
(* otherwise it returns a sequence, and the omitempty fields whose alias   *)
(* the header lacks are zero in every decoded record.                      *)
C9_MissingColumn ==
    (FromCSVReturned /\ ~HeaderUnreadable) =>
        /\ (phase = "readFailed" /\ Is(fromErr, ErrFieldNotFound)) <=> MissingRequired
        /\ MissingRequired => (yielded = <<>> /\ reader.pos = HeaderIndex + 1)
        /\ ~MissingRequired =>
              /\ SequenceReturned
              /\ fromErr = NilErr
              /\ \A k \in 1..Len(yielded) :
                    yielded[k].err = NilErr =>
                       \A f \in AdapterFields :
                          (f.omitEmpty /\ f.alias \notin HeaderCells) =>
                             ValueIn(yielded[k].rec, f) = Zero(KindOf(f))

C9_Witness ==
    /\ phase = "readFailed"
    /\ reader.src = "input"
    /\ ~HeaderUnreadable
    /\ MissingRequired
    /\ DataRows # <<>>
    /\ Is(fromErr, ErrFieldNotFound)

\* A header that lacks only the alias of an omitempty field is accepted and
\* a record is decoded under it.
C9_AcceptedWitness ==
    /\ phase = "readDone"
    /\ ~HeaderUnreadable
    /\ ~MissingRequired
    /\ MissingOptional
    /\ \E k \in 1..Len(yielded) :
          yielded[k].err = NilErr /\ yielded[k].rec # ZeroRecord(structType)

----------------------------------------------------------------------------
(* C10.  In a sequence FromCSV returned, a data row whose number of cells  *)
(* differs from the header's yields one pair, at the row's position, of    *)
(* the zero record and an error wrapping csv.ErrFieldCount; the iteration  *)
(* goes on to the end of the text, and every well-formed row of the text   *)
(* yields its decoded record with a nil error.                             *)
C10_WrongCountRowIsOnePair ==
    (SequenceReturned /\ \E j \in 1..Len(DataRows) : WrongCount(DataRows[j])) =>
        /\ Len(yielded) <= Len(DataRows)
        /\ phase = "readDone" => Len(yielded) = Len(DataRows)
        /\ \A k \in 1..Len(yielded) :
              /\ WrongCount(DataRows[k]) =>
                    /\ yielded[k].rec = ZeroRecord(structType)
                    /\ Is(yielded[k].err, ErrFieldCount)
                    /\ Is(yielded[k].err, ErrReadingCSVLines)
              /\ WellFormed(DataRows[k]) =>
                    /\ yielded[k].err = NilErr
                    /\ DecodedFrom(yielded[k].rec, DataRows[k])

C10_Witness ==
    /\ phase = "readDone"
    /\ Len(DataRows) = 2
    /\ WrongCount(DataRows[1])
    /\ WellFormed(DataRows[2])
    /\ Len(yielded) = 2
    /\ Is(yielded[1].err, ErrFieldCount)
    /\ yielded[2].err = NilErr
    /\ yielded[2].rec # ZeroRecord(structType)

----------------------------------------------------------------------------
(* Vocabulary of the claims about the decoding of one row *)

NumDescriptors == Len(csvAdapter.fields)

DescriptorAt(i) == csvAdapter.fields[i]

\* The cell of the row in the column of descriptor i.
CellOf(row, i) == row[ColumnOf(DescriptorAt(i).alias)]

HasColumn(i) == DescriptorAt(i).alias \in HeaderCells

\* A row the reader hands to the decoding loop.
RightCount(row) == ~IsBadLine(row) /\ Len(row) = Len(HeaderRow)

\* Descriptor i is not omitempty and its cell in the row is empty.
EmptyRequired(row, i) ==
    HasColumn(i) /\ ~DescriptorAt(i).omitEmpty /\ CellOf(row, i) = <<>>

\* Descriptor i is omitempty and its cell in the row is empty.
EmptyOptional(row, i) ==
    HasColumn(i) /\ DescriptorAt(i).omitEmpty /\ CellOf(row, i) = <<>>

\* The cell of descriptor i is not empty and is no text of its kind.
Undecodable(row, i) ==
    /\ HasColumn(i)
    /\ CellOf(row, i) # <<>>
    /\ ~Readable(KindOf(DescriptorAt(i)), CellOf(row, i))

----------------------------------------------------------------------------
(* C11.  An empty cell of an omitempty field leaves the field zero and     *)
(* makes no error; an empty cell of a field that is not omitempty makes    *)
(* the row yield the zero record with an error wrapping ErrEmptyValue.     *)

\* As claimed: whatever the other cells of the row hold.
C11_EmptyCellAnyRow ==
    SequenceReturned =>
        \A k \in 1..Len(yielded) :
            RightCount(DataRows[k]) =>
                /\ (\E i \in 1..NumDescriptors : EmptyRequired(DataRows[k], i)) =>
                      /\ yielded[k].rec = ZeroRecord(structType)
                      /\ Is(yielded[k].err, ErrEmptyValue)
                /\ yielded[k].err = NilErr =>
                      \A i \in 1..NumDescriptors :
                          EmptyOptional(DataRows[k], i) =>
                              ValueIn(yielded[k].rec, DescriptorAt(i)) = Zero(KindOf(DescriptorAt(i)))

\* As amended: the fields are decoded in field-list order and the first
\* one that fails decides the error, so the empty cell of a field that is
\* not omitempty is reported when no field before it has a cell that does
\* not decode.  The empty cells of omitempty fields make no error: a row
\* whose other cells decode yields its record with a nil error.
C11_EmptyCellInFieldOrder ==
    SequenceReturned =>
        \A k \in 1..Len(yielded) :
            RightCount(DataRows[k]) =>
                /\ \A i \in 1..NumDescriptors :
                      ( /\ EmptyRequired(DataRows[k], i)
                        /\ \A j \in 1..(i - 1) : ~Undecodable(DataRows[k], j) ) =>
                         /\ yielded[k].rec = ZeroRecord(structType)
                         /\ Is(yielded[k].err, ErrEmptyValue)
                         /\ Is(yielded[k].err, ErrProcessingCSVLines)
                /\ yielded[k].err = NilErr =>
                      \A i \in 1..NumDescriptors :
                          EmptyOptional(DataRows[k], i) =>
                              ValueIn(yielded[k].rec, DescriptorAt(i)) = Zero(KindOf(DescriptorAt(i)))
                /\ ( /\ \E i \in 1..NumDescriptors : EmptyOptional(DataRows[k], i)
                     /\ WellFormed(DataRows[k]) ) =>
                      yielded[k].err = NilErr

C11_Witness ==
    /\ phase = "readDone"
    /\ Len(yielded) = 2
    /\ RightCount(DataRows[1])
    /\ \E i \in 1..NumDescriptors : EmptyRequired(DataRows[1], i)
    /\ Is(yielded[1].err, ErrEmptyValue)
    /\ RightCount(DataRows[2])
    /\ \E i \in 1..NumDescriptors : EmptyOptional(DataRows[2], i)
    /\ yielded[2].err = NilErr
    /\ yielded[2].rec # ZeroRecord(structType)

----------------------------------------------------------------------------
(* C12.  Once yield has returned false for a pair, of a record or of an    *)
(* error, the sequence reads nothing more and yields nothing more; and     *)
(* each pull reads one row, so no data row is read before the first pull.  *)

\* The positions in the text of its lines that are not blank.
TextPositions ==
    SelectSeq([p \in 1..Len(reader.lines) |-> p],
              LAMBDA p : reader.lines[p] \notin { <<>>, << <<>> >> })

\* Where the reader stands when it has read the header and n data rows.
PositionAfter(n) == TextPositions[n + 1] + 1

C12_StopEndsReading ==
    SequenceReturned =>
        /\ Len(answers) = Len(yielded)
        /\ \A k \in 1..(Len(answers) - 1) : answers[k]
        /\ phase \in {"reading", "readStopped"} =>
              reader.pos = PositionAfter(Len(yielded))
        /\ (yielded = <<>> /\ phase = "reading") => (line = 0 /\ reader.pos = HeaderIndex + 1)
        /\ (Len(answers) > 0 /\ ~answers[Len(answers)]) => phase = "readStopped"

\* A stop in answer to an error pair, with rows left unread.
C12_Witness ==
    /\ phase = "readStopped"
    /\ Len(yielded) = 1
    /\ yielded[1].err # NilErr
    /\ ~answers[1]
    /\ Len(DataRows) = 2
    /\ reader.pos = PositionAfter(1)
    /\ reader.pos <= Len(reader.lines)

----------------------------------------------------------------------------
(* Vocabulary of the claims about ToCSV *)

\* ToCSV has been called.
ToCSVCalled == phase \in {"writing", "wrote", "writeFailed"} \/ reader.src = "sink"

\* ToCSV has returned.
ToCSVReturned == phase \in {"wrote", "writeFailed"} \/ reader.src = "sink"

\* The rows handed to csvWriter so far, flushed or not.
Written == sink \o wbuf

\* The field aliases in field-list order.
AliasRow == [i \in 1..NumDescriptors |-> DescriptorAt(i).alias]

HeaderRows == IF csvAdapter.options.writeHeader THEN 1 ELSE 0

\* The texts of the record's fields in field-list order.
RowOf(rec) ==
    [i \in 1..NumDescriptors |->
        marshalField(KindOf(DescriptorAt(i)), ValueIn(rec, DescriptorAt(i)), FALSE).str]

\* The records whose rows ToCSV has written: all those pulled, but for the
\* one it failed at.
RowsWritten == IF toErr = NilErr THEN pulled ELSE pulled - 1

----------------------------------------------------------------------------
(* C13.  With the header enabled the first row written is the aliases in   *)
(* field-list order, before every data row; with WriteHeader(false) no     *)
(* header row is written; the data rows are one per record, in the order   *)
(* the records are pulled, each with its cells in field-list order.        *)
C13_OutputOrder ==
    ToCSVCalled /\ sinkAccepts =>
        /\ Len(Written) = HeaderRows + RowsWritten
        /\ csvAdapter.options.writeHeader => Written[1] = AliasRow
        /\ \A j \in 1..RowsWritten : Written[HeaderRows + j] = RowOf(data[j])

C13_Witness ==
    /\ phase = "wrote"
    /\ csvAdapter.options.writeHeader
    /\ NumDescriptors > 1
    /\ Len(data) = 2
    /\ RowOf(data[1]) # RowOf(data[2])
    /\ sink = <<AliasRow, RowOf(data[1]), RowOf(data[2])>>

\* The same with WriteHeader(false): the rows of the records and no other.
C13_NoHeaderWitness ==
    /\ phase = "wrote"
    /\ ~csvAdapter.options.writeHeader
    /\ Len(data) = 2
    /\ RowOf(data[1]) # RowOf(data[2])
    /\ sink = <<RowOf(data[1]), RowOf(data[2])>>

----------------------------------------------------------------------------
(* C14.  When some record of the sequence has an empty string in a field   *)
(* that is not omitempty, ToCSV returns an error wrapping ErrEmptyValue at *)
(* the first such record: no later record is pulled, and the sink holds    *)
(* the header and the rows of the records before it and nothing else.  An  *)
(* empty string in an omitempty field is never the cause of the error and  *)
(* is written as an empty cell.  Read for a sink that accepts its writes.  *)

\* The value holds an empty string, directly or behind a pointer.
RECURSIVE EmptyString(_, _)
EmptyString(kind, v) ==
    IF kind = <<"string">> THEN v = <<>>
    ELSE IF IsPtr(kind) THEN v # <<>> /\ EmptyString(Elem(kind), v[1])
    ELSE FALSE

EmptyStringAt(rec, i) ==
    EmptyString(KindOf(DescriptorAt(i)), ValueIn(rec, DescriptorAt(i)))

\* The record has an empty string in a field that is not omitempty.
EmptyRequiredValue(rec) ==
    \E i \in 1..NumDescriptors :
        ~DescriptorAt(i).omitEmpty /\ EmptyStringAt(rec, i)

\* The records of the sequence that have one.
EmptyRequiredRecords == { j \in 1..Len(data) : EmptyRequiredValue(data[j]) }

FirstEmptyRequired ==
    CHOOSE j \in EmptyRequiredRecords : \A k \in EmptyRequiredRecords : j <= k

\* The header, if written, and the rows of the first n records.
RowsUpTo(n) ==
    (IF csvAdapter.options.writeHeader THEN <<AliasRow>> ELSE <<>>)
        \o [j \in 1..n |-> RowOf(data[j])]

C14_EmptyValueAborts ==
    ToCSVReturned /\ sinkAccepts =>
        /\ EmptyRequiredRecords # {} =>
               /\ Is(toErr, ErrEmptyValue)
               /\ pulled = FirstEmptyRequired
               /\ sink = RowsUpTo(FirstEmptyRequired - 1)
        /\ Is(toErr, ErrEmptyValue) =>
               \E i \in 1..NumDescriptors :
                   /\ toErr.at = <<pulled, DescriptorAt(i).name, DescriptorAt(i).alias>>
                   /\ ~DescriptorAt(i).omitEmpty
        /\ \A j \in 1..RowsWritten : \A i \in 1..NumDescriptors :
               DescriptorAt(i).omitEmpty /\ EmptyStringAt(data[j], i)
                   => sink[HeaderRows + j][i] = <<>>

\* The second of two records has the empty string: the header and the row
\* of the first are in the sink, the row of the second is not.
C14_Witness ==
    /\ phase = "writeFailed"
    /\ sinkAccepts
    /\ csvAdapter.options.writeHeader
    /\ Len(data) = 2
    /\ EmptyRequiredRecords = {2}
    /\ Is(toErr, ErrEmptyValue)
    /\ sink = <<AliasRow, RowOf(data[1])>>

\* The first of two records has it: the second is never pulled.
C14_NotPulledWitness ==
    /\ phase = "writeFailed"
    /\ sinkAccepts
    /\ Len(data) = 2
    /\ 1 \in EmptyRequiredRecords
    /\ pulled = 1
    /\ Is(toErr, ErrEmptyValue)

\* An empty string in an omitempty field has been written as an empty cell.
C14_OmitEmptyWitness ==
    /\ phase = "wrote"
    /\ sinkAccepts
    /\ toErr = NilErr
    /\ \E j \in 1..Len(data) : \E i \in 1..NumDescriptors :
           /\ DescriptorAt(i).omitEmpty
           /\ EmptyStringAt(data[j], i)
           /\ sink[HeaderRows + j][i] = <<>>

----------------------------------------------------------------------------
(* C15.  ToCSV returns nil only if the sink accepted every row: when the   *)
(* sink has reported an error on a write, the write of the final flush     *)
(* included, ToCSV has returned an error.                                  *)
C15_SinkErrorReturned ==
    ToCSVReturned /\ writerErr # NilErr => toErr # NilErr

\* The buffer filled during the loop and the sink refused it: this error
\* is returned.
C15_LoopWriteWitness ==
    /\ phase = "writeFailed"
    /\ ~sinkAccepts
    /\ Is(toErr, ErrReadingCSV)
    /\ Is(toErr, ErrSink)

\* The sink refused the final flush and ToCSV returned nil.
C15_LostFlush ==
    /\ phase = "wrote"
    /\ ~sinkAccepts
    /\ writerErr # NilErr
    /\ toErr = NilErr
    /\ sink = <<>>

----------------------------------------------------------------------------
(* C16.  A field of a named struct type, held by value or through a        *)
(* pointer, is written as the output of the type's MarshalText when it has *)
(* one, else as the output of its String, and ToCSV fails with             *)
(* ErrUnprocessableType only at a field whose type has neither.            *)

\* The named type of the field, "" for a field of a built-in kind.
CustomTypeAt(i) ==
    LET kind == KindOf(DescriptorAt(i))
    IN  IF IsCustom(kind) THEN kind[2]
        ELSE IF IsPtr(kind) /\ IsCustom(Elem(kind)) THEN kind[3]
        ELSE ""

HeldByValue(i) == IsCustom(KindOf(DescriptorAt(i)))

HeldThroughPointer(i) == CustomTypeAt(i) # "" /\ ~HeldByValue(i)

\* The text the record holds in the field, <<>> behind a nil pointer.
CustomTextAt(rec, i) ==
    LET v == ValueIn(rec, DescriptorAt(i))
    IN  IF HeldByValue(i) THEN v ELSE IF v = <<>> THEN <<>> ELSE v[1]

IsNilAt(rec, i) == HeldThroughPointer(i) /\ ValueIn(rec, DescriptorAt(i)) = <<>>

\* The cell the claim gives the field.
CustomCell(rec, i) ==
    IF TextMarshaler \in Implements(CustomTypeAt(i)) THEN MarshalText(CustomTextAt(rec, i))
    ELSE String(CustomTextAt(rec, i))

Writable(i) == Implements(CustomTypeAt(i)) \cap {TextMarshaler, Stringer} # {}

\* The field the error of ToCSV names.
FailedAt(i) == toErr.at = <<pulled, DescriptorAt(i).name, DescriptorAt(i).alias>>

C16_CustomKindsWritten ==
    ToCSVReturned /\ sinkAccepts =>
        /\ Is(toErr, ErrUnprocessableType) =>
               \E i \in 1..NumDescriptors :
                   FailedAt(i) /\ CustomTypeAt(i) # "" /\ ~Writable(i)
        /\ \A j \in 1..RowsWritten : \A i \in 1..NumDescriptors :
               CustomTypeAt(i) # "" /\ Writable(i) /\ ~IsNilAt(data[j], i)
                   => sink[HeaderRows + j][i] = CustomCell(data[j], i)

\* The same for the fields held through a pointer only.
C16_ThroughPointer ==
    ToCSVReturned /\ sinkAccepts =>
        /\ Is(toErr, ErrUnprocessableType) =>
               \E i \in 1..NumDescriptors :
                   FailedAt(i) /\ CustomTypeAt(i) # ""
                       /\ (HeldThroughPointer(i) => ~Writable(i))
        /\ \A j \in 1..RowsWritten : \A i \in 1..NumDescriptors :
               HeldThroughPointer(i) /\ Writable(i) /\ ~IsNilAt(data[j], i)
                   => sink[HeaderRows + j][i] = CustomCell(data[j], i)

\* Through pointers the output of a MarshalText and of a MarshalText that
\* is preferred to a String have been written.
C16_PointerWitness ==
    /\ phase = "wrote"
    /\ sinkAccepts
    /\ structType = Pointers
    /\ \E j \in 1..Len(data) : sink[HeaderRows + j] = << <<"a">>, <<"a">> >>

\* Through a pointer the output of a String has been written.
C16_StringerWitness ==
    /\ phase = "wrote"
    /\ sinkAccepts
    /\ structType = Labels
    /\ \E j \in 1..Len(data) : sink[HeaderRows + j] = << <<"(", "a", ")">>, <<>> >>

\* Through a pointer a value of a type with neither method has been refused.
C16_OpaqueWitness ==
    /\ phase = "writeFailed"
    /\ structType = Labels
    /\ Is(toErr, ErrUnprocessableType)
    /\ FailedAt(2)

\* FromCSV has decoded the field held by value through UnmarshalText.
C16_DecodedByValue ==
    /\ structType = Valued
    /\ \E k \in 1..Len(yielded) :
           yielded[k].err = NilErr /\ yielded[k].rec = << <<"a">> >>

\* ToCSV has refused the same field although its type has a MarshalText.
C16_RefusedByValue ==
    /\ phase = "writeFailed"
    /\ structType = Valued
    /\ data[pulled] = << <<"a">> >>
    /\ Is(toErr, ErrUnprocessableType)
    /\ TextMarshaler \in Implements(CustomTypeAt(1))

----------------------------------------------------------------------------
(* C17.  No step of FromCSV, of its sequence or of ToCSV changes the       *)
(* adapter, and a FromCSV call and a ToCSV call on the same adapter whose  *)
(* steps come in any order give the pairs and the rows each call gives     *)
(* when it runs alone.                                                     *)

\* The adapter as NewCSVAdapter returned it.
Constructed == BuildAdapter(structType, optArgs).adapter

\* The pairs of a sequence that is read to its end with no other call made.
RECURSIVE PairsAlone(_, _, _, _)
PairsAlone(r, order, ln, pairs) ==
    LET x == Read(r)
    IN  IF Is(x.err, EOF) THEN pairs
        ELSE PairsAlone(x.reader, order, ln + 1,
                 Append(pairs,
                     IF x.err # NilErr
                     THEN [rec |-> ZeroRecord(structType),
                           err |-> JoinErr(Sentinel(ErrReadingCSVLines), x.err)]
                     ELSE DecodeRow(structType, Constructed, order, x.record, ln + 1)))

\* What FromCSV of the same text gives with no other call made.
FromCSVAlone ==
    LET c == FromCSVCall(Constructed, reader.lines, "input")
    IN  [err |-> c.err,
         pairs |-> IF c.seq THEN PairsAlone(c.reader, c.columnsOrder, 0, <<>>)
                   ELSE <<>>]

\* What ToCSV of the same records gives with no other call made: [sink, err].
RECURSIVE RowsAlone(_, _)
RowsAlone(w, j) ==
    IF j > Len(data) THEN [sink |-> Flush(w).sink, err |-> NilErr]
    ELSE LET r == EncodeRecord(structType, Constructed, data[j], j)
             x == Write(w, r.record)
         IN  IF r.err # NilErr THEN [sink |-> Flush(w).sink, err |-> r.err]
             ELSE IF x.err # NilErr
             THEN [sink |-> Flush(x.writer).sink,
                   err |-> JoinErr(Sentinel(ErrReadingCSV), x.err)]
             ELSE RowsAlone(x.writer, j + 1)

ToCSVAlone ==
    RowsAlone(IF Constructed.options.writeHeader
              THEN Write(NewWriter(sinkAccepts), HeaderOf(Constructed)).writer
              ELSE NewWriter(sinkAccepts), 1)

SameAsAlone ==
    /\ rphase # "idle" =>
           /\ fromErr = FromCSVAlone.err
           /\ Len(yielded) <= Len(FromCSVAlone.pairs)
           /\ yielded = SubSeq(FromCSVAlone.pairs, 1, Len(yielded))
           /\ rphase = "readDone" => yielded = FromCSVAlone.pairs
    /\ wphase \in {"wrote", "writeFailed"} =>
           /\ toErr = ToCSVAlone.err
           /\ sink = ToCSVAlone.sink

C17_AdapterImmutable ==
    /\ [][phase # "start" => csvAdapter' = csvAdapter]_vars
    /\ []SameAsAlone

\* Both calls are under way: a pair has been yielded and a row written,
\* and neither call has come to its end.
C17_Witness ==
    /\ rphase = "reading"
    /\ wphase = "writing"
    /\ Len(yielded) = 1
    /\ pulled = 1
    /\ Len(reader.lines) > 2
    /\ Len(data) = 2

\* Both calls have come to their end after that.
C17_BothDoneWitness ==
    /\ rphase = "readDone"
    /\ wphase = "wrote"
    /\ Len(yielded) = 2
    /\ yielded[1].err = NilErr
    /\ yielded[2].err # NilErr
    /\ Len(sink) = 3

----------------------------------------------------------------------------
(* C18.  In every adapter NewCSVAdapter returns without an error no two    *)
(* field descriptors have the same alias.                                  *)
C18_AliasesDistinct ==
    phase = "built" =>
        \A i, j \in 1..Len(csvAdapter.fields) :
            i # j => csvAdapter.fields[i].alias # csvAdapter.fields[j].alias

\* An adapter has been returned whose two descriptors share an alias.
C18_SharedAlias ==
    /\ phase = "built"
    /\ newErr = NilErr
    /\ Len(csvAdapter.fields) = 2
    /\ csvAdapter.fields[1].alias = csvAdapter.fields[2].alias

----------------------------------------------------------------------------
(* C19.  Every error pair of a FromCSV sequence, whatever its cause, wraps *)
(* ErrProcessingCSVLines and carries a ReadingError whose Line is k for    *)
(* the k-th data row after the header, failed rows counted, and whose      *)
(* Field and FieldAlias name the offending field.                          *)

\* Descriptor i is one whose cell in the row makes the row fail.
Offending(row, i) == EmptyRequired(row, i) \/ Undecodable(row, i)

\* The error is tagged with line k and the name and alias of descriptor i.
TaggedWith(err, k, i) ==
    /\ Is(err, ErrProcessingCSVLines)
    /\ err.at = <<k, DescriptorAt(i).name, DescriptorAt(i).alias>>

C19_EveryErrorTagged ==
    SequenceReturned =>
        \A k \in 1..Len(yielded) :
            yielded[k].err # NilErr =>
                \E i \in 1..NumDescriptors : TaggedWith(yielded[k].err, k, i)

\* The same for the rows that the reader hands to the decoding loop: the
\* error names the first field in field-list order whose cell fails.
C19_FieldErrorsTagged ==
    SequenceReturned =>
        \A k \in 1..Len(yielded) :
            yielded[k].err # NilErr /\ RightCount(DataRows[k]) =>
                \E i \in 1..NumDescriptors :
                    /\ TaggedWith(yielded[k].err, k, i)
                    /\ Offending(DataRows[k], i)
                    /\ \A j \in 1..(i - 1) : ~Offending(DataRows[k], j)

\* The second data row has a field that fails, after a first row that
\* failed too, and its error carries line 2.
C19_FieldErrorWitness ==
    /\ Len(yielded) = 2
    /\ yielded[1].err # NilErr
    /\ RightCount(DataRows[2])
    /\ \E i \in 1..NumDescriptors :
           Offending(DataRows[2], i) /\ TaggedWith(yielded[2].err, 2, i)

\* A row of the wrong width has yielded an error that wraps
\* ErrReadingCSVLines, not ErrProcessingCSVLines, and names no line.
C19_UntaggedRowError ==
    /\ Len(yielded) > 0
    /\ WrongCount(DataRows[Len(yielded)])
    /\ Is(yielded[Len(yielded)].err, ErrReadingCSVLines)
    /\ ~Is(yielded[Len(yielded)].err, ErrProcessingCSVLines)
    /\ yielded[Len(yielded)].err.at = <<>>

----------------------------------------------------------------------------
(* C20.  A cell is decoded into a field of a sized integer kind only when  *)
(* it spells a number within the range of the kind, and the field then     *)
(* holds that number; a cell that spells a number outside the range or no  *)
(* number makes the row yield the zero record with an error wrapping       *)
(* ErrParsingType.  No record with another number is yielded.              *)

\* The kind of the one field of the record type, and the cell of a row.
NumKind == structType.fields[1].kind

NumCell(k) == DataRows[k][1]

C20_IntegerWidths ==
    SequenceReturned =>
        \A k \in 1..Len(yielded) :
            /\ \A e \in InRange(NumKind) :
                  e.cell = NumCell(k) =>
                      yielded[k].err = NilErr /\ yielded[k].rec = <<e.val>>
            /\ NumCell(k) \in OutOfRange(NumKind) \cup Malformed =>
                  /\ yielded[k].rec = ZeroRecord(structType)
                  /\ Is(yielded[k].err, ErrParsingType)
            /\ yielded[k].err = NilErr =>
                  \E e \in InRange(NumKind) :
                      e.cell = NumCell(k) /\ yielded[k].rec = <<e.val>>

\* An int8 field: 128 has yielded the error and -128 the record.
C20_Witness ==
    /\ structType = Num(<<"int8">>)
    /\ Len(yielded) = 2
    /\ NumCell(1) = <<"1", "2", "8">>
    /\ Is(yielded[1].err, ErrParsingType)
    /\ yielded[1].rec = <<0>>
    /\ NumCell(2) = <<"-", "1", "2", "8">>
    /\ yielded[2].err = NilErr
    /\ yielded[2].rec = <<-128>>

\* A uint64 field: 2^64 has yielded the error, 2147483647 the record.
C20_UnsignedWitness ==
    /\ structType = Num(<<"uint64">>)
    /\ Len(yielded) = 2
    /\ NumCell(1) = Pow2Text(64)
    /\ Is(yielded[1].err, ErrParsingType)
    /\ NumCell(2) = IntText(2147483647)
    /\ yielded[2].rec = <<2147483647>>

----------------------------------------------------------------------------
(* C21: a tag segment that writes omitempty in key=value form              *)
(* (omitempty=true, omitempty=false) is not silently accepted:             *)
(* construction fails with ErrInvalidTag, and no descriptor has its        *)
(* omitEmpty flag set by such a segment.  Stated for a segment the tag     *)
(* loop gets to: the fields before it do not fail, and no "-" and no       *)
(* rejected segment stands before it in its tag.                           *)

\* A segment omitempty=<value>.
IsKeyedOmitEmpty(seg) == NumEq(seg) = 1 /\ KeyOf(seg) = TAG_OMITEMPTY

\* Segment q of the tag of field i is one the tag loop gets to.
ReachedAt(i, q) ==
    /\ \A j \in 1..(i - 1) : CleanSkip(TagOf(j)) \/ AliasTagged(TagOf(j))
    /\ \A p \in 1..(q - 1) :
          Segments(TagOf(i))[p] # TAG_SKIP /\ ~RejectedAt(Segments(TagOf(i)), p)

\* The tag has a segment that is just omitempty.
HasBareOmitEmpty(tag) ==
    \E q \in 1..Len(Segments(tag)) : Segments(tag)[q] = TAG_OMITEMPTY

C21_KeyedOmitEmptyInvalid ==
    /\ Returned =>
          \A i \in 1..NumFields :
              \A q \in 1..Len(Segments(TagOf(i))) :
                  IsKeyedOmitEmpty(Segments(TagOf(i))[q]) /\ ReachedAt(i, q)
                  => /\ phase = "failed"
                     /\ Is(newErr, ErrInvalidTag)
    /\ phase = "built" =>
          \A k \in 1..Len(csvAdapter.fields) :
              \A i \in 1..NumFields :
                  ( /\ NameOf(i) = csvAdapter.fields[k].name
                    /\ csvAdapter.fields[k].omitEmpty )
                  => HasBareOmitEmpty(TagOf(i))

\* NewCSVAdapter returned an adapter for a first field tagged
\* `y,omitempty=false`, and the descriptor of the field has omitEmpty set.
C21_SilentlyAccepted ==
    /\ phase = "built"
    /\ TagOf(1) = <<"y", ",", "omitempty", "=", "false">>
    /\ csvAdapter.fields[1].name = NameOf(1)
    /\ csvAdapter.fields[1].alias = <<"y">>
    /\ csvAdapter.fields[1].omitEmpty
    /\ newErr = NilErr

----------------------------------------------------------------------------
(* C22: in a FromCSV sequence whose consumer never stops, every read of    *)
(* the source after the header that does not report end of input gives     *)
(* exactly one pair; the sequence ends at the first read that reports end  *)
(* of input, with no pair for that read; a read that fails otherwise does  *)
(* not end the sequence.  So the sequence ends if and only if the source   *)
(* comes to report end of input: it ends on a text that ends, and does not *)
(* end on a reader that fails instead.                                     *)

\* The reader reports io.EOF after the lines of the text.
SourceEnds == reader.src # "failing"

\* The pair yielded for a read that failed.
FailedRead(pair) ==
    /\ pair.rec = ZeroRecord(structType)
    /\ Is(pair.err, ErrReadingCSVLines)

\* Pair k is the pair of the k-th read after the header.
PairOfRead(k) ==
    IF k > Len(DataRows) THEN FailedRead(yielded[k]) /\ Is(yielded[k].err, ErrSource)
    ELSE IF IsBadLine(DataRows[k]) \/ WrongCount(DataRows[k])
    THEN FailedRead(yielded[k]) /\ ~Is(yielded[k].err, ErrSource)
    ELSE ~Is(yielded[k].err, ErrReadingCSVLines)

\* What holds of the pairs at every moment.
OnePairPerRead ==
    /\ phase = "reading" =>
          /\ Len(yielded) = line
          /\ SourceEnds => line <= Len(DataRows)
    /\ phase = "readDone" =>
          /\ SourceEnds
          /\ line = Len(DataRows) + 1
          /\ Len(yielded) = Len(DataRows)
    /\ SequenceReturned =>
          /\ \A k \in 1..Len(yielded) : PairOfRead(k)
          /\ \A k \in 1..Len(answers) : answers[k]

C22_EndsAtEndOfInput ==
    /\ [](phase \in {"reading", "readDone"} => OnePairPerRead)
    /\ (phase = "reading" /\ SourceEnds) ~> (phase = "readDone")

\* The sequence has ended on a text whose first data line cannot be read
\* and whose second can: two pairs, the failure first.
C22_Witness ==
    /\ phase = "readDone"
    /\ Len(DataRows) = 2
    /\ IsBadLine(DataRows[1])
    /\ WellFormed(DataRows[2])
    /\ Len(yielded) = 2
    /\ FailedRead(yielded[1])
    /\ yielded[2].err = NilErr
    /\ line = 3

\* On a reader that fails after the text every further read gives a pair:
\* the sequence has not ended when the pairs followed run out.
C22_FailingSourceWitness ==
    /\ phase = "reading"
    /\ ~SourceEnds
    /\ Len(DataRows) = 1
    /\ Len(yielded) = MaxLines
    /\ \A k \in 2..MaxLines : Is(yielded[k].err, ErrSource)

----------------------------------------------------------------------------
(* C23: every descriptor of an adapter that NewCSVAdapter returned names a *)
(* field FromCSV can assign: decoding a cell that is not empty into a      *)
(* listed field sets the field or yields an error pair, and the sequence   *)
(* is never left by a panic, not even for a field of the record type that  *)
(* is not exported and has no skip marker.                                 *)

\* Every pair yielded for a row of the header's width is an error pair or
\* the record the row stands for.
PairsDecoded ==
    \A k \in 1..Len(yielded) :
        RightCount(DataRows[k]) =>
            yielded[k].err # NilErr \/ DecodedFrom(yielded[k].rec, DataRows[k])

C23_ListedFieldsAssignable ==
    /\ phase # "readPanicked"
    /\ SequenceReturned => PairsDecoded

\* The same for the adapters whose descriptors all name exported fields.
C23_ExportedFieldsAssignable ==
    (\A f \in AdapterFields : IsExported(f.name)) =>
        /\ phase # "readPanicked"
        /\ SequenceReturned => PairsDecoded

\* NewCSVAdapter returned an adapter with a descriptor for the field
\* secret, and the first data row, with a secret cell, ended the sequence
\* by a panic: no pair was yielded for it.
C23_Panicked ==
    /\ phase = "readPanicked"
    /\ newErr = NilErr
    /\ structType = Hidden(<<"string">>, <<"secret">>)
    /\ \E f \in AdapterFields : f.name = <<"secret">>
    /\ DataRows[1] = << <<"a">>, <<"a">> >>
    /\ line = 1
    /\ yielded = <<>>

\* A secret cell that is no number gives an error pair for the int field:
\* the parse fails before the field is set.
C23_ParseErrorPair ==
    /\ phase = "readDone"
    /\ structType = Hidden(<<"int">>, <<"secret">>)
    /\ DataRows = << << <<"a">>, <<"a">> >> >>
    /\ Len(yielded) = 1
    /\ Is(yielded[1].err, ErrParsingType)

\* With the skip marker on the field the same row is decoded.
C23_SkipMarked ==
    /\ phase = "readDone"
    /\ structType = Hidden(<<"string">>, <<"-">>)
    /\ DataRows = << << <<"a">>, <<"a">> >> >>
    /\ Len(yielded) = 1
    /\ yielded[1].err = NilErr
    /\ yielded[1].rec = << <<"a">>, <<>> >>

----------------------------------------------------------------------------
(* C24: every column index of the mapping FromCSV builds from the header   *)
(* is a position in every data row that reaches field decoding: a row of   *)
(* fewer or more cells than the header becomes an error pair before a cell *)
(* of it is looked at, so the cell at a mapped index is always there; for  *)
(* an alias that repeats in the header the mapping holds the position of   *)
(* its last occurrence.                                                    *)

\* Pair k came from the loop over the fields, not from a failed read.
ReachedDecoding(k) == ~Is(yielded[k].err, ErrReadingCSVLines)

C24_MappedIndexInRange ==
    SequenceReturned =>
        /\ DOMAIN columnsOrder = HeaderCells
        /\ \A a \in HeaderCells : columnsOrder[a] = ColumnOf(a) - 1
        /\ \A k \in 1..Len(yielded) :
              /\ Len(DataRows[k]) # Len(HeaderRow) =>
                    /\ FailedRead(yielded[k])
                    /\ ~ReachedDecoding(k)
              /\ ReachedDecoding(k) =>
                    \A a \in DOMAIN columnsOrder :
                        columnsOrder[a] + 1 \in DOMAIN DataRows[k]

\* The header names the column name twice; the row of two cells gave an
\* error pair, and the row of three gave a record whose Name is the cell
\* of the last name column.
C24_Witness ==
    /\ phase = "readDone"
    /\ structType = Person
    /\ HeaderRow = << <<"name">>, <<"age">>, <<"name">> >>
    /\ columnsOrder[<<"name">>] = 2
    /\ Len(DataRows) = 2
    /\ Len(DataRows[1]) = 2 /\ ~IsBadLine(DataRows[1])
    /\ FailedRead(yielded[1])
    /\ DataRows[2] = << <<>>, <<"3">>, <<"a">> >>
    /\ yielded[2].err = NilErr
    /\ yielded[2].rec = << <<"a">>, 3, <<>> >>

\* A row of more cells than the header gave an error pair.
C24_LongRowWitness ==
    /\ SequenceReturned
    /\ Len(HeaderRow) = 2
    /\ Len(yielded) >= 1
    /\ Len(DataRows[1]) = 3
    /\ FailedRead(yielded[1])
    /\ Is(yielded[1].err, ErrFieldCount)

----------------------------------------------------------------------------
(* Vocabulary of the round trip *)

\* FromCSV has read to its end the text a ToCSV call of the same adapter
\* wrote, or has refused it.
RoundTripDone ==
    reader.src = "sink" /\ sinkAccepts /\ phase \in {"readDone", "readFailed"}

\* The value is written as a non-empty cell.
RECURSIVE NonEmpty(_, _)
NonEmpty(kind, v) ==
    CASE kind = <<"string">> -> v # <<>>
      [] IsPtr(kind) -> v # <<>> /\ NonEmpty(Elem(kind), v[1])
      [] OTHER -> TRUE

\* Every field of the record is non-empty or marked omitempty.
Covered(rec) == \A f \in AdapterFields : f.omitEmpty \/ NonEmpty(KindOf(f), ValueIn(rec, f))

\* The two records agree on the fields the adapter maps.
SameRecord(a, b) == \A f \in AdapterFields : ValueIn(a, f) = ValueIn(b, f)

----------------------------------------------------------------------------
(* C1.  With the header written, ToCSV of records whose fields are all     *)
(* non-empty or marked omitempty, followed by FromCSV of the text written, *)
(* yields the same records in the same order, each with a nil error.       *)
C1_RoundTrip ==
    (/\ RoundTripDone
     /\ csvAdapter.options.writeHeader
     /\ \A k \in 1..Len(data) : Covered(data[k])) =>
        /\ phase = "readDone"
        /\ fromErr = NilErr
        /\ Len(yielded) = Len(data)
        /\ \A k \in 1..Len(yielded) :
              yielded[k].err = NilErr /\ SameRecord(yielded[k].rec, data[k])

====
